---- MODULE Spec2Model ----
(***************************************************************************)
(* A model of the well-coordinate algebra of the microplates package       *)
(* (microplates/utils.py) and of the platemap compiler                     *)
(* (microplates/data.py).                                                  *)
(*                                                                         *)
(* A Python str is a sequence of one-character strings; every Python       *)
(* value carries a tag ("str", "int", "tuple", "pair", "list", "bool",     *)
(* "None") and a raised exception is the value [tag |-> "raise"].          *)
(***************************************************************************)
EXTENDS Integers, Sequences, FiniteSets, TLC

\* codec calls: the argument of the first call, the functions called so far
\* (each on the value the previous one returned), the last value returned
VARIABLES codecIn, codecCalls, codecOut

\* range parser calls: the arguments (rng, wells, and how rng was written),
\* the function called ("" before the call), the value returned
VARIABLES rangeIn, rangeCall, rangeOut

\* one itertuples generator: its arguments (x, y, by), its position
\* ("start" before the first next(), "yield" suspended at a yield, "done"),
\* what is left of the range of its outer and of its inner loop, its locals
\* i and j, and the tuples yielded so far
VARIABLES enumIn, enumPc, enumOuter, enumInner, enumI, enumJ, enumOut

\* one iterwells generator: its arguments, its position ("start" before the
\* first next(), "loop" at the head of the while loop, "yield" suspended at
\* the yield, "done" or "raise"), its locals cell, n and current_plate, and
\* the items yielded so far
VARIABLES walkIn, walkPc, walkCell, walkN, walkPlate, walkOut

\* one platemap_to_dataframe call: its arguments (prog, wells), its position
\* ("call", "loop", "done" or "raise"), the rule and the comma-separated part
\* of its key that the loop is at, the part handled last, the DataFrame data
VARIABLES mapIn, mapPc, mapRule, mapPart, mapLast, mapData

\* one _map_plate call and one scale_plate call on the same plate sizes: the
\* arguments (spec, from_wells, to_wells, include_row_column), the mapping
\* _map_plate returned (None before the call), the position of scale_plate
\* ("call", "loop", "done" or "raise"), the row of spec that its loop is at
\* and the dict newspec
VARIABLES scaleIn, convOut, scalePc, scaleK, scaleNew

\* one combine_plate_dataframes call: its arguments, its position ("call",
\* "loop", "done" or "raise"), the number of plates of the layout handled so
\* far and the dict newspec
VARIABLES combIn, combPc, combK, combNew

\* one calc_norm call: its arguments, its position ("call", "loop", "done"
\* or "raise"), the caller's list `columns`, the groups still to handle,
\* the list new_dfs (as the rows of its frames, in order) and the calls of
\* `how` made so far (what it was given, and for which group)
VARIABLES normIn, normPc, normCols, normGroups, normNew, normCalls

\* one fortify_plate call: its arguments (df, inplace), its position ("call",
\* "done" or "raise"), the caller's DataFrame and the value returned
VARIABLES fortIn, fortPc, fortDf, fortOut

\* one infer_plate_size call: its arguments (cells, all, prefer96, prefer),
\* its position ("call", "done" or "raise") and the value returned
VARIABLES sizeIn, sizePc, sizeOut

codecVars == << codecIn, codecCalls, codecOut >>

mapVars == << mapIn, mapPc, mapRule, mapPart, mapLast, mapData >>

enumVars == << enumIn, enumPc, enumOuter, enumInner, enumI, enumJ, enumOut >>

walkVars == << walkIn, walkPc, walkCell, walkN, walkPlate, walkOut >>

rangeVars == << rangeIn, rangeCall, rangeOut >>

scaleVars == << scaleIn, convOut, scalePc, scaleK, scaleNew >>

combVars == << combIn, combPc, combK, combNew >>

normVars == << normIn, normPc, normCols, normGroups, normNew, normCalls >>

fortVars == << fortIn, fortPc, fortDf, fortOut >>

sizeVars == << sizeIn, sizePc, sizeOut >>

tableVars == << scaleVars, combVars, normVars, fortVars, sizeVars >>

vars == << codecVars, rangeVars, enumVars, walkVars, mapVars, tableVars >>

(***************************************************************************)
(* Bounds of the model.                                                    *)
(***************************************************************************)
\* rows 0..MaxRow are encoded (ZZ = 701, AAA = 702)
MaxRow == 703
\* columns 0..MaxCol are encoded
MaxCol == 49
\* candidate well names are all strings over NameChars of at most this length
MaxNameLen == 4
\* at most this many codec functions are chained
MaxCalls == 2
\* range expressions name columns 0..MaxRangeCol (as numbers, 1-based)
MaxRangeCol == 10
\* free-form range expressions are all strings over RangeChars of at most
\* this length
MaxRangeLen == 5
\* rectangles are enumerated inside rows 0..MaxEnumRow, columns 0..MaxEnumCol
MaxEnumRow == 3
MaxEnumCol == 3
\* iterwells is asked for at most this many wells
MaxWalk == 14
\* iterwells starts within this many wells of the first or the last well
MaxWalkEdge == 6
\* a platemap has one rule whose key has at most MaxParts comma-separated
\* parts, or at most MaxRules rules with one-part keys
MaxParts == 2
MaxRules == 2

(***************************************************************************)
(* Characters and strings.                                                 *)
(***************************************************************************)
\* utils.py:25
_alpha == << "A", "B", "C", "D", "E", "F", "G", "H", "I", "J", "K", "L", "M",
             "N", "O", "P", "Q", "R", "S", "T", "U", "V", "W", "X", "Y", "Z" >>

\* the lower-case letters that the class [a-zA-Z] also accepts
LowerCase == << "a", "b", "c", "d", "e", "f", "g", "h", "i", "j", "k", "l", "m",
                "n", "o", "p", "q", "r", "s", "t", "u", "v", "w", "x", "y", "z" >>

\* the decimal digits, in order of value
DecDigits == << "0", "1", "2", "3", "4", "5", "6", "7", "8", "9" >>

\* the characters of the model in code point order, which is the order
\* sorted() compares strings by
CodePoints == << " ", ",", "-" >> \o DecDigits \o << ":" >> \o _alpha \o LowerCase

SeqRange(s) == { s[k] : k \in 1..Len(s) }

IndexOf(s, ch) == CHOOSE k \in 1..Len(s) : s[k] = ch

\* [a-zA-Z]
IsLetter(ch) == ch \in SeqRange(_alpha) \cup SeqRange(LowerCase)

\* \d
IsDigit(ch) == ch \in SeqRange(DecDigits)

\* str.upper() of one character
Upper(ch) == IF ch \in SeqRange(LowerCase) THEN _alpha[IndexOf(LowerCase, ch)] ELSE ch

UpperStr(s) == [k \in 1..Len(s) |-> Upper(s[k])]

\* s[from:] with a 1-based index
Drop(s, from) == SubSeq(s, from, Len(s))

\* the length of the longest prefix of s matching [a-zA-Z]*
RECURSIVE LetterRun(_)
LetterRun(s) == IF s # << >> /\ IsLetter(s[1]) THEN 1 + LetterRun(Tail(s)) ELSE 0

\* the length of the longest prefix of s matching \d*
RECURSIVE DigitRun(_)
DigitRun(s) == IF s # << >> /\ IsDigit(s[1]) THEN 1 + DigitRun(Tail(s)) ELSE 0

\* s < t for two Python strings
RECURSIVE StrLess(_, _)
StrLess(s, t) ==
    IF t = << >> THEN FALSE
    ELSE IF s = << >> THEN TRUE
    ELSE IF s[1] # t[1] THEN IndexOf(CodePoints, s[1]) < IndexOf(CodePoints, t[1])
    ELSE StrLess(Tail(s), Tail(t))

\* int(s) for a string of decimal digits
RECURSIVE ParseInt(_)
ParseInt(s) ==
    IF s = << >> THEN 0
    ELSE 10 * ParseInt(SubSeq(s, 1, Len(s) - 1)) + (IndexOf(DecDigits, s[Len(s)]) - 1)

\* str(n) for an integer
RECURSIVE IntToStr(_)
IntToStr(n) ==
    IF n < 0 THEN << "-" >> \o IntToStr(0 - n)
    ELSE IF n < 10 THEN << DecDigits[n + 1] >>
    ELSE IntToStr(n \div 10) \o << DecDigits[(n % 10) + 1] >>

(***************************************************************************)
(* Python values.                                                          *)
(***************************************************************************)
None == [tag |-> "None"]
Raise(e) == [tag |-> "raise", v |-> e]
PyStr(s) == [tag |-> "str", v |-> s]
PyInt(n) == [tag |-> "int", v |-> n]
PyBool(b) == [tag |-> "bool", v |-> b]
\* a (row, column) tuple
PyTuple(r, c) == [tag |-> "tuple", v |-> << r, c >>]

(***************************************************************************)
(* Coordinate codec (utils.py:25-153).                                     *)
(***************************************************************************)
\* the dict `letters`: upper-case letter -> 0..25
letters == [ch \in SeqRange(_alpha) |-> IndexOf(_alpha, ch) - 1]

\* the loop shared by letters2row and well2tuple: row after reading the
\* letters r, starting from `row`; a letter that is no key of `letters`
\* raises KeyError
RECURSIVE RowLoop(_, _)
RowLoop(r, row) ==
    IF r = << >> THEN PyInt(row)
    ELSE IF r[1] \notin DOMAIN letters THEN Raise("KeyError")
    ELSE RowLoop(Tail(r), row * Len(_alpha) + letters[r[1]] + 1)

\* letters2row without the final - 1
letters2row_OneBased(r) == RowLoop(r, 0)

letters2row(r) ==
    LET row == RowLoop(r, 0)
    IN  IF row.tag = "raise" THEN row ELSE PyInt(row.v - 1)

\* cell_regex = ^([a-zA-Z]+)(\d+) : the two groups, or None
CellRegexMatch(s) ==
    LET nl == LetterRun(s)
        nd == DigitRun(Drop(s, nl + 1))
    IN  IF nl >= 1 /\ nd >= 1
        THEN [tag |-> "match", g1 |-> SubSeq(s, 1, nl), g2 |-> SubSeq(s, nl + 1, nl + nd),
              end |-> nl + nd]
        ELSE None

well2tuple(cell) ==
    LET m == CellRegexMatch(cell)
    IN  IF m.tag # "None"
        THEN LET row == RowLoop(m.g1, 0)
             IN  IF row.tag = "raise" THEN row
                 ELSE PyTuple(row.v - 1, ParseInt(m.g2) - 1)
        ELSE None

cell2tuple(cell) == well2tuple(cell)

\* cell_regex.fullmatch(str(cell)) is not None
is_well(cell) ==
    LET m == CellRegexMatch(cell)
    IN  m.tag # "None" /\ m.end = Len(cell)

\* row2letters with the division lacking its - 1 (plain base 26, A = 0)
RECURSIVE Row2LettersPlainLoop(_, _)
Row2LettersPlainLoop(i, r) ==
    IF i >= Len(_alpha)
    THEN Row2LettersPlainLoop(i \div Len(_alpha), << _alpha[(i % Len(_alpha)) + 1] >> \o r)
    ELSE << _alpha[i + 1] >> \o r

row2letters_Plain(i) == IF i < 0 THEN << >> ELSE Row2LettersPlainLoop(i, << >>)

RECURSIVE Row2LettersLoop(_, _)
Row2LettersLoop(i, r) ==
    IF i >= 0
    THEN Row2LettersLoop((i \div Len(_alpha)) - 1, << _alpha[(i % Len(_alpha)) + 1] >> \o r)
    ELSE r

row2letters(i) == Row2LettersLoop(i, << >>)

\* tuple2well writing the zero-based column
tuple2well_ZeroBased(i, j) == row2letters(i) \o IntToStr(j)

tuple2well(i, j) == row2letters(i) \o IntToStr(j + 1)

tuple2cell(i, j) == tuple2well(i, j)

(***************************************************************************)
(* Range parser (utils.py:12-22, 155-237).                                 *)
(***************************************************************************)
\* number of wells -> (rows, columns)
plates ==
    (6 :> << 2, 3 >>) @@ (12 :> << 3, 4 >>) @@ (24 :> << 4, 6 >>) @@ (48 :> << 6, 8 >>)
        @@ (96 :> << 8, 12 >>) @@ (384 :> << 16, 24 >>) @@ (1536 :> << 32, 48 >>)

\* a pair (a, b) of strings or of coordinates
PyPair(a, b) == [tag |-> "pair", v |-> << a, b >>]

\* s[k], or "" past the end of s
CharAt(s, k) == IF k \in 1..Len(s) THEN s[k] ELSE ""

\* (r1, c1) < (r2, c2) for two tuples
TupleLess(a, b) == a[1] < b[1] \/ (a[1] = b[1] /\ a[2] < b[2])

\* sorted([a, b]) for two strings, two ints, two tuples
SortedStrs(a, b) == IF StrLess(b, a) THEN << b, a >> ELSE << a, b >>

SortedInts(a, b) == IF b < a THEN << b, a >> ELSE << a, b >>

SortedTuples(a, b) == IF TupleLess(b, a) THEN << b, a >> ELSE << a, b >>

\* re.match(r"([a-zA-Z]\d+):([a-zA-Z]\d+)", rng): the groups, or None
WellRangeMatch(rng) ==
    LET n1 == DigitRun(Drop(rng, 2))
        n2 == DigitRun(Drop(rng, n1 + 4))
    IN  IF /\ IsLetter(CharAt(rng, 1)) /\ n1 >= 1
           /\ CharAt(rng, n1 + 2) = ":"
           /\ IsLetter(CharAt(rng, n1 + 3)) /\ n2 >= 1
        THEN [tag |-> "match", g1 |-> SubSeq(rng, 1, n1 + 1),
              g2 |-> SubSeq(rng, n1 + 3, n1 + 3 + n2)]
        ELSE None

\* re.match(r"([a-zA-Z]):([a-zA-Z])", rng)
RowRangeMatch(rng) ==
    IF IsLetter(CharAt(rng, 1)) /\ CharAt(rng, 2) = ":" /\ IsLetter(CharAt(rng, 3))
    THEN [tag |-> "match", g1 |-> << rng[1] >>, g2 |-> << rng[3] >>]
    ELSE None

\* re.match(r"(\d+):(\d+)", rng)
ColRangeMatch(rng) ==
    LET n1 == DigitRun(rng)
        n2 == DigitRun(Drop(rng, n1 + 2))
    IN  IF n1 >= 1 /\ CharAt(rng, n1 + 1) = ":" /\ n2 >= 1
        THEN [tag |-> "match", g1 |-> SubSeq(rng, 1, n1),
              g2 |-> SubSeq(rng, n1 + 2, n1 + 1 + n2)]
        ELSE None

range2wells(rng, wells) ==
    LET m1 == WellRangeMatch(rng)
        m2 == RowRangeMatch(rng)
        m3 == ColRangeMatch(rng)
    IN  IF m1.tag # "None"
        THEN LET g == SortedStrs(m1.g1, m1.g2) IN PyPair(g[1], g[2])
        ELSE IF m2.tag # "None"
        THEN LET g == SortedStrs(m2.g1, m2.g2)
             IN  PyPair(g[1] \o << "1" >>, g[2] \o IntToStr(plates[wells][2]))
        ELSE IF m3.tag # "None"
        THEN LET g == SortedInts(ParseInt(m3.g1), ParseInt(m3.g2))
             IN  IF plates[wells][1] - 1 >= Len(_alpha) THEN Raise("IndexError")
                 ELSE PyPair(<< _alpha[1] >> \o IntToStr(g[1]),
                             << _alpha[plates[wells][1]] >> \o IntToStr(g[2]))
        ELSE None

range2cells(rng, wells) == range2wells(rng, wells)

range2tuple(rng, wells) ==
    LET cs == range2cells(rng, wells)
    IN  IF cs.tag = "raise" THEN cs
        ELSE IF cs.tag # "None"
        THEN LET t1 == cell2tuple(cs.v[1])
                 t2 == cell2tuple(cs.v[2])
             IN  IF t1.tag = "raise" THEN t1
                 ELSE IF t2.tag = "raise" THEN t2
                 ELSE LET g == SortedTuples(t1.v, t2.v) IN PyPair(g[1], g[2])
        ELSE None

(***************************************************************************)
(* Range enumerator (utils.py:28-55, 314-409).                             *)
(***************************************************************************)
\* list(range(a, b))
PyRange(a, b) == [k \in 1..(b - a) |-> a + k - 1]

\* range(a, b) with the end left out of the +1 of lines 46, 48, 52 and 54
EnumRange_HalfOpen(a, b) == PyRange(a, b)

\* list(range(a, b + 1)), the range of a loop of itertuples
EnumRange(a, b) == PyRange(a, b + 1)

\* the range of the outer loop (line 46 or 52) and of the inner loop (line
\* 48 or 54): by='column' has the columns outside and the rows inside
EnumOuterRange(x, y, by) ==
    IF by = "column" THEN EnumRange(x[2], y[2]) ELSE EnumRange(x[1], y[1])

EnumInnerRange(x, y, by) ==
    IF by = "column" THEN EnumRange(x[1], y[1]) ELSE EnumRange(x[2], y[2])

\* the loops of itertuples run on to the next yield or to the end: `outer`
\* and `inner` are what the two loops have left, o and n their variables.
\* The inner loop takes its next value and yields; once it has none the
\* outer loop takes its next value and the inner loop starts again on a new
\* range; once the outer loop has none the generator is over.
RECURSIVE EnumRun(_, _, _, _, _, _, _)
EnumRun(x, y, by, outer, inner, o, n) ==
    IF inner # << >>
    THEN [pc |-> "yield", outer |-> outer, inner |-> Tail(inner),
          o |-> o, n |-> Head(inner)]
    ELSE IF outer = << >>
    THEN [pc |-> "done", outer |-> outer, inner |-> inner, o |-> o, n |-> n]
    ELSE EnumRun(x, y, by, Tail(outer), EnumInnerRange(x, y, by), Head(outer), n)

\* iterwells with the row wrap never counted as a new plate
WalkAdvance_NoPlate(cell, plate, rows, cols, by) ==
    IF by = "columns"
    THEN [cell |-> IF cell[1] + 1 >= rows
                   THEN << 0, IF cell[2] + 1 >= cols THEN 0 ELSE cell[2] + 1 >>
                   ELSE << cell[1] + 1, cell[2] >>,
          plate |-> plate]
    ELSE [cell |-> IF cell[2] + 1 >= cols
                   THEN << IF cell[1] + 1 >= rows THEN 0 ELSE cell[1] + 1, 0 >>
                   ELSE << cell[1], cell[2] + 1 >>,
          plate |-> plate]

\* iterwells, lines 394-409: cell and current_plate after the step from
\* cell, current_plate
WalkAdvance(cell, plate, rows, cols, by) ==
    IF by = "columns"
    THEN LET r1 == cell[1] + 1
             r2 == IF r1 >= rows THEN 0 ELSE r1
             c2 == IF r1 >= rows THEN cell[2] + 1 ELSE cell[2]
         IN  IF c2 >= cols
             THEN [cell |-> << r2, 0 >>, plate |-> plate + 1]
             ELSE [cell |-> << r2, c2 >>, plate |-> plate]
    ELSE LET c1 == cell[2] + 1
             c2 == IF c1 >= cols THEN 0 ELSE c1
             r2 == IF c1 >= cols THEN cell[1] + 1 ELSE cell[1]
         IN  IF r2 >= rows
             THEN [cell |-> << 0, c2 >>, plate |-> plate + 1]
             ELSE [cell |-> << r2, c2 >>, plate |-> plate]

(***************************************************************************)
(* Platemap compiler (data.py:16, 209-295).                                *)
(*                                                                         *)
(* A value of a rule is a scalar, a list of scalars or a list of equally   *)
(* long lists of scalars; a scalar is written as the string of its repr.   *)
(* A DataFrame is its index (the row labels in order), its columns (in     *)
(* order) and the cells that hold a value; any other cell is NaN.          *)
(***************************************************************************)
Scalar(x) == [tag |-> "scalar", v |-> x]
List1(xs) == [tag |-> "list1", v |-> xs]
List2(rows) == [tag |-> "list2", v |-> rows]

\* rngs.split(',')
RECURSIVE Split(_)
Split(rngs) ==
    LET n == CHOOSE k \in 0..Len(rngs) :
                /\ \A q \in 1..k : rngs[q] # ","
                /\ (k = Len(rngs) \/ rngs[k + 1] = ",")
    IN  IF n = Len(rngs) THEN << rngs >>
        ELSE << SubSeq(rngs, 1, n) >> \o Split(Drop(rngs, n + 2))

\* np.array(value).shape
Shape(value) ==
    IF value.tag = "list2" THEN << Len(value.v), Len(value.v[1]) >>
    ELSE << Len(value.v) >>

\* np.array(value).squeeze(): the 1-D array it gives, or None when the
\* result is not 1-D
Squeeze(value) ==
    IF value.tag = "list1"
    THEN IF Len(value.v) # 1 THEN value ELSE None
    ELSE IF Len(value.v) = 1 /\ Len(value.v[1]) # 1 THEN List1(value.v[1])
    ELSE IF Len(value.v) # 1 /\ Len(value.v[1]) = 1
    THEN List1([k \in 1..Len(value.v) |-> value.v[k][1]])
    ELSE None

\* lines 251-286: what the well at offset (a, b) of a range of dimensions
\* dim is assigned for `value`
Spooled(value, a, b, dim) ==
    IF value.tag = "scalar" THEN value
    ELSE IF Shape(value) = dim THEN Scalar(value.v[a + 1][b + 1])
    ELSE LET value_arr == Squeeze(value)
         IN  IF value_arr.tag = "list1"
             THEN IF Len(value_arr.v) = dim[1] /\ dim[2] = 1
                  THEN Scalar(value_arr.v[a + 1])
                  ELSE IF Len(value_arr.v) = dim[2] /\ dim[1] = 1
                  THEN Scalar(value_arr.v[b + 1])
                  ELSE value
             ELSE value

\* data[key] = value, which sets the whole column, in place of the
\* assignment to one cell
SetCell_WholeColumn(data, label, key, value) ==
    LET index == IF label \in SeqRange(data.index) THEN data.index
                 ELSE Append(data.index, label)
    IN  [index |-> index,
         columns |-> IF key \in SeqRange(data.columns) THEN data.columns
                     ELSE Append(data.columns, key),
         cells |-> [ck \in { << l, key >> : l \in SeqRange(index) } |-> value]
                       @@ data.cells]

\* data.loc[label, key] = value, and data.at[label, key] = value: a label
\* or a key the frame lacks is added to it
SetCell(data, label, key, value) ==
    [index |-> IF label \in SeqRange(data.index) THEN data.index
               ELSE Append(data.index, label),
     columns |-> IF key \in SeqRange(data.columns) THEN data.columns
                 ELSE Append(data.columns, key),
     cells |-> (<< label, key >> :> value) @@ data.cells]

\* the number of elements of a value that is a list
Size(value) ==
    IF value.tag = "list2" THEN Len(value.v) * Len(value.v[1]) ELSE Len(value.v)

\* the only element of a list of one element
Item(value) ==
    IF value.tag = "list2" THEN Scalar(value.v[1][1]) ELSE Scalar(value.v[1])

\* what pandas and numpy can do with a list of one number that is assigned
\* to one cell of a column of numbers: refuse it, or store its element
LocOutcomes == { "raise", "item" }

\* the frame is not a frame: the assignment has raised
Raised(data) == "cells" \notin DOMAIN data

\* lines 264, 276, 281, 286 and 293: data.loc[label, key] = value, and
\* data.at[label, key] = value, for the values of the platemaps here, where
\* no list goes to a column that holds a string. A scalar is stored. A list
\* is not stored in the cell of a column of numbers: a list of several
\* elements raises ValueError; a list of one element raises ValueError or
\* leaves its element in the cell, as `how` says.
LocSet(data, label, key, value, how) ==
    IF value.tag = "scalar" THEN SetCell(data, label, key, value)
    ELSE IF Size(value) > 1 \/ how = "raise" THEN Raise("ValueError")
    ELSE SetCell(data, label, key, Item(value))

\* lines 251-286: the loop over values.items() for the well at offsets
\* (a, b), which is (i, j). The frame is read at every turn (its length is
\* never negative), so that it is built cell by cell, in the order in which
\* the loop builds it, and not when the last turn returns it.
RECURSIVE AssignWell(_, _, _, _, _, _, _, _)
AssignWell(data, values, a, i, b, j, dim, how) ==
    IF Raised(data) THEN data
    ELSE IF values = << >> \/ Len(data.index) < 0 THEN data
    ELSE AssignWell(LocSet(data, tuple2cell(i, j), values[1][1],
                           Spooled(values[1][2], a, b, dim), how),
                    Tail(values), a, i, b, j, dim, how)

\* lines 244-286: the two loops over the range tup, from the well with
\* number k (row-major, from 0) on
RECURSIVE AssignRange(_, _, _, _, _)
AssignRange(data, values, tup, k, how) ==
    LET dim == << tup[2][1] - tup[1][1] + 1, tup[2][2] - tup[1][2] + 1 >>
    IN  IF Raised(data) THEN data
        ELSE IF dim[1] <= 0 \/ dim[2] <= 0 \/ k >= dim[1] * dim[2]
                \/ Len(data.index) < 0
        THEN data
        ELSE LET a == k \div dim[2]
                 b == k % dim[2]
             IN  AssignRange(AssignWell(data, values, a, tup[1][1] + a, b,
                                        tup[1][2] + b, dim, how),
                             values, tup, k + 1, how)

\* lines 292-293: the loop over values.items() for a single well
RECURSIVE AssignSingle(_, _, _, _)
AssignSingle(data, values, rng, how) ==
    IF Raised(data) THEN data
    ELSE IF values = << >> \/ Len(data.index) < 0 THEN data
    ELSE AssignSingle(LocSet(data, rng, values[1][1], values[1][2], how),
                      Tail(values), rng, how)

\* lines 214-220: the empty frame, one row per well of the plate
EmptyFrame(wells) ==
    [index |-> [k \in 1..(plates[wells][1] * plates[wells][2]) |->
                  tuple2cell((k - 1) \div plates[wells][2], (k - 1) % plates[wells][2])],
     columns |-> << >>,
     cells |-> << >>]

(***************************************************************************)
(* Calls of the codec functions, chained: each is applied to the value     *)
(* the previous call returned.                                             *)
(***************************************************************************)
NameChars == { "A", "B", "Z", "a", "x", "0", "1", "9", ":", " " }

\* every string over NameChars of length 0..MaxNameLen
NameStrings == UNION { [1..n -> NameChars] : n \in 0..MaxNameLen }

CodecInputs ==
    { PyTuple(r, c) : r \in 0..MaxRow, c \in 0..MaxCol }
        \cup { PyStr(s) : s \in NameStrings }
        \cup { PyInt(r) : r \in 0..MaxRow }

CodecIdle == codecIn = None /\ codecCalls = << >> /\ codecOut = None

RangeIdle == rangeIn = None /\ rangeCall = "" /\ rangeOut = None

EnumIdle ==
    /\ enumIn = None /\ enumPc = "" /\ enumOuter = << >> /\ enumInner = << >>
    /\ enumI = None /\ enumJ = None /\ enumOut = << >>

WalkIdle ==
    /\ walkIn = None /\ walkPc = "" /\ walkCell = << >>
    /\ walkN = 0 /\ walkPlate = 0 /\ walkOut = << >>

MapIdle ==
    /\ mapIn = None /\ mapPc = "" /\ mapRule = 0 /\ mapPart = 0
    /\ mapLast = << 0, 0 >> /\ mapData = None

ScaleIdle ==
    /\ scaleIn = None /\ convOut = None /\ scalePc = "" /\ scaleK = 0 /\ scaleNew = None

CombIdle == combIn = None /\ combPc = "" /\ combK = 0 /\ combNew = None

NormIdle ==
    /\ normIn = None /\ normPc = "" /\ normCols = << >> /\ normGroups = << >>
    /\ normNew = << >> /\ normCalls = << >>

FortIdle == fortIn = None /\ fortPc = "" /\ fortDf = None /\ fortOut = None

SizeIdle == sizeIn = None /\ sizePc = "" /\ sizeOut = None

TableIdle == ScaleIdle /\ CombIdle /\ NormIdle /\ FortIdle /\ SizeIdle

CodecInit ==
    /\ RangeIdle /\ EnumIdle /\ WalkIdle /\ MapIdle /\ TableIdle
    /\ codecIn \in CodecInputs
    /\ codecCalls = << >>
    /\ codecOut = codecIn

CodecCall(f, ret) ==
    /\ Len(codecCalls) < MaxCalls
    /\ codecCalls' = Append(codecCalls, f)
    /\ codecOut' = ret
    /\ UNCHANGED << codecIn, rangeVars, enumVars, walkVars, mapVars, tableVars >>

CallTuple2well ==
    /\ codecOut.tag = "tuple"
    /\ CodecCall("tuple2well", PyStr(tuple2well(codecOut.v[1], codecOut.v[2])))

CallWell2tuple ==
    /\ codecOut.tag = "str"
    /\ CodecCall("well2tuple", well2tuple(codecOut.v))

CallIsWell ==
    /\ codecOut.tag = "str"
    /\ CodecCall("is_well", PyBool(is_well(codecOut.v)))

CallLetters2row ==
    /\ codecOut.tag = "str"
    /\ CodecCall("letters2row", letters2row(codecOut.v))

CallRow2letters ==
    /\ codecOut.tag = "int"
    /\ CodecCall("row2letters", PyStr(row2letters(codecOut.v)))

CodecNext ==
    \/ CallTuple2well
    \/ CallWell2tuple
    \/ CallIsWell
    \/ CallLetters2row
    \/ CallRow2letters

SpecCodec == CodecInit /\ [][CodecNext]_vars

(***************************************************************************)
(* Calls of the range parser.  An argument is written as well:well from    *)
(* two wells of the plate, as row:row from two letters, as column:column   *)
(* from two numbers, or is any short string.                               *)
(***************************************************************************)
PlateSizes == DOMAIN plates

\* rows that range expressions name: the first three, and the first two
\* with a two-letter name
RangeRows == { 0, 1, 2, 26, 27 }

RangeLetters == SeqRange(_alpha) \cup { "a", "b" }

RangeChars == { "A", "B", "1", "2", ":" }

Min(a, b) == IF a <= b THEN a ELSE b

Max(a, b) == IF a >= b THEN a ELSE b

\* the wells of the plate that range expressions name
RangeWells(wells) ==
    (RangeRows \cap (0..(plates[wells][1] - 1)))
        \X (0..Min(MaxRangeCol, plates[wells][2] - 1))

WellRangeInput(w, a, b) ==
    [kind |-> "well:well", wells |-> w, a |-> a, b |-> b,
     rng |-> tuple2well(a[1], a[2]) \o << ":" >> \o tuple2well(b[1], b[2])]

RowRangeInput(w, x, y) ==
    [kind |-> "row:row", wells |-> w, a |-> x, b |-> y, rng |-> << x, ":", y >>]

ColRangeInput(w, m, n) ==
    [kind |-> "column:column", wells |-> w, a |-> m, b |-> n,
     rng |-> IntToStr(m) \o << ":" >> \o IntToStr(n)]

TextRangeInput(t) == [kind |-> "text", wells |-> 96, a |-> 0, b |-> 0, rng |-> t]

RangeInit ==
    /\ CodecIdle /\ EnumIdle /\ WalkIdle /\ MapIdle /\ TableIdle
    /\ \/ \E w \in PlateSizes : \E a \in RangeWells(w), b \in RangeWells(w) :
            rangeIn = WellRangeInput(w, a, b)
       \/ \E w \in PlateSizes : \E x \in RangeLetters, y \in RangeLetters :
            rangeIn = RowRangeInput(w, x, y)
       \/ \E w \in PlateSizes : \E m \in 0..(MaxRangeCol + 1), n \in 0..(MaxRangeCol + 1) :
            rangeIn = ColRangeInput(w, m, n)
       \/ \E n \in 0..MaxRangeLen : \E t \in [1..n -> RangeChars] :
            rangeIn = TextRangeInput(t)
    /\ rangeCall = ""
    /\ rangeOut = None

CallRange2wells ==
    /\ rangeCall = ""
    /\ rangeCall' = "range2wells"
    /\ rangeOut' = range2wells(rangeIn.rng, rangeIn.wells)
    /\ UNCHANGED << rangeIn, codecVars, enumVars, walkVars, mapVars, tableVars >>

CallRange2tuple ==
    /\ rangeCall = ""
    /\ rangeCall' = "range2tuple"
    /\ rangeOut' = range2tuple(rangeIn.rng, rangeIn.wells)
    /\ UNCHANGED << rangeIn, codecVars, enumVars, walkVars, mapVars, tableVars >>

RangeNext ==
    \/ CallRange2wells
    \/ CallRange2tuple

SpecRange == RangeInit /\ [][RangeNext]_vars

(***************************************************************************)
(* One itertuples generator: an action is one next() of the consumer, from *)
(* the start of the body or from a yield to the next yield or to the end.  *)
(* The arguments are tuples, as documented, and are not changed under way. *)
(* A consumer that stops asking leaves the generator suspended.            *)
(***************************************************************************)
EnumCoords == (0..MaxEnumRow) \X (0..MaxEnumCol)

EnumInit ==
    /\ CodecIdle /\ RangeIdle /\ WalkIdle /\ MapIdle /\ TableIdle
    /\ \E x \in EnumCoords, y \in EnumCoords, by \in { "row", "column" } :
        enumIn = [x |-> x, y |-> y, by |-> by]
    /\ enumPc = "start"
    /\ enumOuter = << >>
    /\ enumInner = << >>
    /\ enumI = None
    /\ enumJ = None
    /\ enumOut = << >>

\* the generator has run to r: its locals are kept and, at a yield, (i, j)
\* is handed to the consumer (line 49 or 55)
EnumRunsTo(r) ==
    LET i == IF enumIn.by = "column" THEN r.n ELSE r.o
        j == IF enumIn.by = "column" THEN r.o ELSE r.n
    IN  /\ enumPc' = r.pc
        /\ enumOuter' = r.outer
        /\ enumInner' = r.inner
        /\ enumI' = i
        /\ enumJ' = j
        /\ enumOut' = IF r.pc = "yield" THEN Append(enumOut, << i, j >>) ELSE enumOut
        /\ UNCHANGED << enumIn, codecVars, rangeVars, walkVars, mapVars, tableVars >>

\* the first next(): the body starts, line 44 picks the order and the outer
\* loop is entered; the generator suspends at its first yield, or is over
\* when there is nothing to yield
ItertuplesStart ==
    /\ enumPc = "start"
    /\ EnumRunsTo(EnumRun(enumIn.x, enumIn.y, enumIn.by,
                          EnumOuterRange(enumIn.x, enumIn.y, enumIn.by),
                          << >>, enumI, enumJ))

\* a later next(): the body runs on from the yield where it was suspended to
\* the next yield, or to the end
ItertuplesResume ==
    /\ enumPc = "yield"
    /\ EnumRunsTo(EnumRun(enumIn.x, enumIn.y, enumIn.by, enumOuter, enumInner,
                          IF enumIn.by = "column" THEN enumJ ELSE enumI,
                          IF enumIn.by = "column" THEN enumI ELSE enumJ))

EnumNext ==
    \/ ItertuplesStart
    \/ ItertuplesResume

SpecEnum == EnumInit /\ [][EnumNext]_vars

(***************************************************************************)
(* One iterwells generator: an action is the start of the body, the part   *)
(* of a loop iteration that ends suspended at the yield, the part that     *)
(* runs when the consumer asks for the next item, or the end of the loop.  *)
(* A consumer that stops asking leaves the generator suspended.            *)
(***************************************************************************)
\* the row-major position of a well in a plate, and the well at a position
PositionOf(cell, wells) == cell[1] * plates[wells][2] + cell[2]

WellAt(p, wells) == << p \div plates[wells][2], p % plates[wells][2] >>

NumWells(wells) == plates[wells][1] * plates[wells][2]

\* the start wells: within MaxWalkEdge wells of A1 or of the last well
WalkStarts(wells) ==
    { WellAt(p, wells) :
        p \in { q \in 0..(NumWells(wells) - 1) :
                  q < MaxWalkEdge \/ q >= NumWells(wells) - MaxWalkEdge } }

WalkInit ==
    /\ CodecIdle /\ RangeIdle /\ EnumIdle /\ MapIdle /\ TableIdle
    /\ \E wells \in PlateSizes : \E cell \in WalkStarts(wells) :
       \E n \in 0..MaxWalk, by \in { "rows", "columns", "column" },
          plate \in BOOLEAN, start_plate \in { 0, 3 } :
        walkIn = [n |-> n, start |-> tuple2well(cell[1], cell[2]), wells |-> wells,
                  by |-> by, plate |-> plate, start_plate |-> start_plate]
    /\ walkPc = "start"
    /\ walkCell = << >>
    /\ walkN = 0
    /\ walkPlate = 0
    /\ walkOut = << >>

\* lines 381-384
WalkStart ==
    /\ walkPc = "start"
    /\ LET t == cell2tuple(walkIn.start)
       IN  IF t.tag = "tuple"
           THEN /\ walkCell' = t.v
                /\ walkN' = walkIn.n
                /\ walkPlate' = walkIn.start_plate
                /\ walkPc' = "loop"
           ELSE /\ walkPc' = "raise"
                /\ UNCHANGED << walkCell, walkN, walkPlate >>
    /\ UNCHANGED << walkIn, walkOut, codecVars, rangeVars, enumVars, mapVars, tableVars >>

\* lines 386-390: the loop goes on and the generator suspends at its yield;
\* n, cell and current_plate are as they were at the head of the loop
WalkYield ==
    /\ walkPc = "loop"
    /\ walkN > 0
    /\ LET name == tuple2cell(walkCell[1], walkCell[2])
       IN  walkOut' = Append(walkOut, IF walkIn.plate
                                      THEN [plate |-> walkPlate, well |-> name]
                                      ELSE [well |-> name])
    /\ walkPc' = "yield"
    /\ UNCHANGED << walkIn, walkCell, walkN, walkPlate,
                    codecVars, rangeVars, enumVars, mapVars, tableVars >>

\* lines 392-409: the consumer asks for the next item, the body runs on from
\* the yield to the head of the loop
WalkResume ==
    /\ walkPc = "yield"
    /\ LET next == WalkAdvance(walkCell, walkPlate, plates[walkIn.wells][1],
                               plates[walkIn.wells][2], walkIn.by)
       IN  /\ walkN' = walkN - 1
           /\ walkCell' = next.cell
           /\ walkPlate' = next.plate
    /\ walkPc' = "loop"
    /\ UNCHANGED << walkIn, walkOut, codecVars, rangeVars, enumVars, mapVars, tableVars >>

\* line 386, the loop ends
WalkStop ==
    /\ walkPc = "loop"
    /\ walkN <= 0
    /\ walkPc' = "done"
    /\ UNCHANGED << walkIn, walkCell, walkN, walkPlate, walkOut,
                    codecVars, rangeVars, enumVars, mapVars, tableVars >>

WalkNext ==
    \/ WalkStart
    \/ WalkYield
    \/ WalkResume
    \/ WalkStop

SpecWalk == WalkInit /\ [][WalkNext]_vars

(***************************************************************************)
(* One platemap_to_dataframe call: an action is the start of the body, one *)
(* iteration of the loop over the comma-separated parts of the keys, or    *)
(* the return.                                                             *)
(***************************************************************************)
SingleWellInput(w, a) ==
    [kind |-> "well", wells |-> w, a |-> a, b |-> a, rng |-> tuple2well(a[1], a[2])]

\* the parts that keys are made of: A1:A3, B1:C2, E1:F2, A3:B1, C2:B1, A1:B1,
\* A1:A1, A1, B2, A:B, 2:1, a1, zz, A1:C1
MapExprs(w) ==
    << WellRangeInput(w, << 0, 0 >>, << 0, 2 >>),
       WellRangeInput(w, << 1, 0 >>, << 2, 1 >>),
       WellRangeInput(w, << 4, 0 >>, << 5, 1 >>),
       WellRangeInput(w, << 0, 2 >>, << 1, 0 >>),
       WellRangeInput(w, << 2, 1 >>, << 1, 0 >>),
       WellRangeInput(w, << 0, 0 >>, << 1, 0 >>),
       WellRangeInput(w, << 0, 0 >>, << 0, 0 >>),
       SingleWellInput(w, << 0, 0 >>),
       SingleWellInput(w, << 1, 1 >>),
       RowRangeInput(w, "A", "B"),
       ColRangeInput(w, 2, 1),
       TextRangeInput(<< "a", "1" >>),
       TextRangeInput(<< "z", "z" >>),
       WellRangeInput(w, << 0, 0 >>, << 2, 0 >>) >>

\* the values of a rule, as the list of its items
MapValues ==
    << << << "conc", List2(<< << "0", "1" >>, << "2", "3" >> >>) >> >>,
       << << "concentration", List2(<< << "0", "10", "100" >> >>) >> >>,
       << << "strain", Scalar("'PAO1'") >>, << "conc", List2(<< << "0" >>, << "10" >> >>) >> >>,
       << << "conc", Scalar("5") >> >>,
       << << "conc", List2(<< << "0", "1", "2" >>, << "3", "4", "5" >> >>) >> >>,
       << << "conc", List1(<< "0", "10", "100" >>) >> >>,
       << << "conc", List1(<< "7" >>) >> >>,
       << << "conc", List2(<< << "7" >> >>) >> >> >>

\* the parts that keys of several parts are made of
MapKeyExprs == { 1, 3, 4, 6, 8, 10, 13 }

\* the parts and the values that platemaps of several rules are made of
MapRuleExprs == { 1, 2, 4, 6, 8, 13 }

MapRuleValues == { 3, 4, 6 }

MapPlates == { 24, 96 }

\* ','.join of the texts of the parts
RECURSIVE JoinParts(_)
JoinParts(parts) ==
    IF Len(parts) = 1 THEN parts[1].rng
    ELSE parts[1].rng \o << "," >> \o JoinParts(Tail(parts))

\* the rule with the key written from the parts with numbers es
MapRuleOf(w, es, v) ==
    LET parts == [k \in 1..Len(es) |-> MapExprs(w)[es[k]]]
    IN  [key |-> JoinParts(parts), values |-> MapValues[v], parts |-> parts]

MapInit ==
    /\ CodecIdle /\ RangeIdle /\ EnumIdle /\ WalkIdle /\ TableIdle
    /\ \E w \in MapPlates :
        \/ \E e \in 1..Len(MapExprs(w)) : \E v \in 1..Len(MapValues) :
            mapIn = [wells |-> w, prog |-> << MapRuleOf(w, << e >>, v) >>]
        \/ \E n \in 2..MaxParts : \E es \in [1..n -> MapKeyExprs] :
           \E v \in 1..Len(MapValues) :
            mapIn = [wells |-> w, prog |-> << MapRuleOf(w, es, v) >>]
        \/ \E n \in 2..MaxRules : \E es \in [1..n -> MapRuleExprs] :
           \E vs \in [1..n -> MapRuleValues] :
            /\ \A i, j \in 1..n : es[i] = es[j] => i = j
            /\ mapIn = [wells |-> w,
                        prog |-> [k \in 1..n |-> MapRuleOf(w, << es[k] >>, vs[k])]]
    /\ mapPc = "call"
    /\ mapRule = 0
    /\ mapPart = 0
    /\ mapLast = << 0, 0 >>
    /\ mapData = None

\* lines 209-220
MapBegin ==
    /\ mapPc = "call"
    /\ mapPc' = "loop"
    /\ mapRule' = 1
    /\ mapPart' = 1
    /\ mapData' = EmptyFrame(mapIn.wells)
    /\ UNCHANGED << mapIn, mapLast, codecVars, rangeVars, enumVars, walkVars, tableVars >>

\* the part of the key that the loop is at
MapRng == Split(mapIn.prog[mapRule].key)[mapPart]

MapInLoop == mapPc = "loop" /\ mapRule <= Len(mapIn.prog)

\* the loops of lines 230 and 234 move on
MapAdvance ==
    /\ IF mapPart < Len(Split(mapIn.prog[mapRule].key))
       THEN mapPart' = mapPart + 1 /\ mapRule' = mapRule
       ELSE mapPart' = 1 /\ mapRule' = mapRule + 1
    /\ UNCHANGED << mapIn, mapPc, codecVars, rangeVars, enumVars, walkVars, tableVars >>

\* the loops of lines 230 and 234 go on with the frame that the part
\* leaves, or the assignment has raised and the call ends
MapAssigned(data) ==
    IF Raised(data)
    THEN /\ mapPc' = "raise"
         /\ UNCHANGED << mapIn, mapRule, mapPart, mapLast, mapData,
                         codecVars, rangeVars, enumVars, walkVars, tableVars >>
    ELSE /\ mapData' = data
         /\ mapLast' = << mapRule, mapPart >>
         /\ MapAdvance

\* lines 237-286: the part is a range
MapRange ==
    /\ MapInLoop
    /\ LET tup == range2tuple(MapRng, mapIn.wells)
       IN  /\ tup.tag = "pair"
           /\ \E how \in LocOutcomes :
                MapAssigned(AssignRange(mapData, mapIn.prog[mapRule].values,
                                        tup.v, 0, how))

\* lines 289-293: the part is a single well
MapWell ==
    /\ MapInLoop
    /\ range2tuple(MapRng, mapIn.wells).tag = "None"
    /\ cell2tuple(MapRng).tag = "tuple"
    /\ \E how \in LocOutcomes :
        MapAssigned(AssignSingle(mapData, mapIn.prog[mapRule].values, MapRng, how))

\* lines 237, 290-291: the part is neither
MapSkip ==
    /\ MapInLoop
    /\ range2tuple(MapRng, mapIn.wells).tag = "None"
    /\ cell2tuple(MapRng).tag = "None"
    /\ UNCHANGED << mapData, mapLast >>
    /\ MapAdvance

\* lines 237, 290: range2tuple or cell2tuple raises
MapRaise ==
    /\ MapInLoop
    /\ \/ range2tuple(MapRng, mapIn.wells).tag = "raise"
       \/ /\ range2tuple(MapRng, mapIn.wells).tag = "None"
          /\ cell2tuple(MapRng).tag = "raise"
    /\ mapPc' = "raise"
    /\ UNCHANGED << mapIn, mapRule, mapPart, mapLast, mapData,
                    codecVars, rangeVars, enumVars, walkVars, tableVars >>

\* line 295
MapReturn ==
    /\ mapPc = "loop"
    /\ mapRule > Len(mapIn.prog)
    /\ mapPc' = "done"
    /\ UNCHANGED << mapIn, mapRule, mapPart, mapLast, mapData,
                    codecVars, rangeVars, enumVars, walkVars, tableVars >>

MapNext ==
    \/ MapBegin
    \/ MapRange
    \/ MapWell
    \/ MapSkip
    \/ MapRaise
    \/ MapReturn

SpecMap == MapInit /\ [][MapNext]_vars

(***************************************************************************)
(* Plate rescaler (data.py:437-508).                                       *)
(*                                                                         *)
(* A Series is a function from its labels to its values.  A frame given to *)
(* the rescaler is its index (the well names in order), its set of columns *)
(* and one Series per well; the dict newspec is its keys in insertion      *)
(* order and one Series per key, which is also the frame                   *)
(* pd.DataFrame(newspec).transpose().                                      *)
(***************************************************************************)
MaxScaleRows == 24

\* the well names of a plate, in row-major order
PlateWells(wells) ==
    [k \in 1..(plates[wells][1] * plates[wells][2]) |->
        tuple2cell((k - 1) \div plates[wells][2], (k - 1) % plates[wells][2])]

\* lines 442-447 with ranges one well too long on both axes
_map_plate_Overlapping(from_wells, to_wells) ==
    LET r0 == plates[to_wells][1] \div plates[from_wells][1]
        r1 == plates[to_wells][2] \div plates[from_wells][2]
    IN  [cell \in SeqRange(PlateWells(from_wells)) |->
            LET t == cell2tuple(cell).v
            IN  [k \in 1..((r0 + 1) * (r1 + 1)) |->
                    tuple2cell((r0 * t[1]) + ((k - 1) \div (r1 + 1)),
                               (r1 * t[2]) + ((k - 1) % (r1 + 1)))]]

\* lines 437-448: the dict from each well of the from-plate to the list of
\* the wells it expands to
_map_plate(from_wells, to_wells) ==
    LET r0 == plates[to_wells][1] \div plates[from_wells][1]
        r1 == plates[to_wells][2] \div plates[from_wells][2]
    IN  [cell \in SeqRange(PlateWells(from_wells)) |->
            LET t == cell2tuple(cell).v
            IN  [k \in 1..(r0 * r1) |->
                    tuple2cell((r0 * t[1]) + ((k - 1) \div r1),
                               (r1 * t[2]) + ((k - 1) % r1))]]

\* lines 450-454: the pairs that _plate_conversion_maps has a map for
StoredPairs ==
    { << 24, 96 >>, << 24, 384 >>, << 24, 1536 >>, << 96, 384 >>, << 96, 1536 >>,
      << 384, 1536 >> }

\* lines 450-454: _plate_conversion_maps[from_wells][to_wells]
_plate_conversion_maps(from_wells, to_wells) ==
    IF << from_wells, to_wells >> = << 384, 1536 >> THEN _map_plate(96, 1536)
    ELSE _map_plate(from_wells, to_wells)

\* r[key] = value on a Series
SetItem(r, key, value) == (key :> value) @@ r

\* del r[key] on a Series that has the label
DelItem(r, key) == [x \in (DOMAIN r) \ { key } |-> r[x]]

\* newspec[cell] = r
PutRow(newspec, cell, r) ==
    [index |-> IF cell \in SeqRange(newspec.index) THEN newspec.index
               ELSE Append(newspec.index, cell),
     rows |-> (cell :> r) @@ newspec.rows]

\* lines 502-503: the Series after the coordinates are set
WithRowColumn(row, cell, include_row_column) ==
    IF include_row_column
    THEN SetItem(SetItem(row, "row", cell2tuple(cell).v[1]), "column", cell2tuple(cell).v[2])
    ELSE row

\* line 505 raises: del finds no such label (KeyError)
DelFails(row, include_row_column, delete_row_column) ==
    /\ delete_row_column
    /\ \E key \in { "row", "column" } :
        key \notin DOMAIN WithRowColumn(row, << "A", "1" >>, include_row_column)

\* lines 501-505: the Series stored for one destination well, when del
\* does not raise
ScaledRow(row, cell, include_row_column, delete_row_column) ==
    IF delete_row_column
    THEN DelItem(DelItem(WithRowColumn(row, cell, include_row_column), "row"), "column")
    ELSE WithRowColumn(row, cell, include_row_column)

\* lines 500-506: the loop over conversion_map[name], from its k-th cell on.
\* newspec is read at every turn (its length is never negative), so that it
\* is built row by row, in the order in which the loop builds it.
RECURSIVE ScaleCells(_, _, _, _, _, _)
ScaleCells(newspec, row, cells, k, include_row_column, delete_row_column) ==
    IF k > Len(cells) \/ Len(newspec.index) < 0 THEN newspec
    ELSE ScaleCells(PutRow(newspec, cells[k],
                           ScaledRow(row, cells[k], include_row_column, delete_row_column)),
                    row, cells, k + 1, include_row_column, delete_row_column)

\* line 491
DeleteRowColumn(spec, include_row_column) ==
    ("row" \in spec.columns \/ "column" \in spec.columns) /\ ~include_row_column

(***************************************************************************)
(* Calls of _map_plate and of scale_plate.  The frame given has the column *)
(* v, which holds the name of the row's well, and any of the columns row   *)
(* and column, which hold the well's coordinates on the from-plate.        *)
(***************************************************************************)
\* the frame with the given wells and the given columns besides v
ScaleFrame(index, extra) ==
    [index |-> index,
     columns |-> { "v" } \cup extra,
     rows |-> [cell \in SeqRange(index) |->
                 [key \in { "v" } \cup extra |->
                     IF key = "v" THEN cell
                     ELSE IF key = "row" THEN cell2tuple(cell).v[1]
                     ELSE cell2tuple(cell).v[2]]]]

\* the indexes of the frames given: no row, the first well, the first and
\* the last well, and every well of a plate of at most MaxScaleRows wells
ScaleIndexes(from_wells) ==
    { << >>, << PlateWells(from_wells)[1] >>,
      << PlateWells(from_wells)[1], PlateWells(from_wells)[Len(PlateWells(from_wells))] >> }
        \cup (IF from_wells <= MaxScaleRows THEN { PlateWells(from_wells) } ELSE { })

ScaleInit ==
    /\ CodecIdle /\ RangeIdle /\ EnumIdle /\ WalkIdle /\ MapIdle /\ CombIdle /\ NormIdle
    /\ FortIdle /\ SizeIdle
    /\ \E from_wells \in PlateSizes, to_wells \in PlateSizes :
       \E index \in ScaleIndexes(from_wells) :
       \E extra \in SUBSET { "row", "column" } :
       \E include_row_column \in BOOLEAN :
        scaleIn = [spec |-> ScaleFrame(index, extra),
                   from_wells |-> from_wells, to_wells |-> to_wells,
                   include_row_column |-> include_row_column]
    /\ convOut = None
    /\ scalePc = "call"
    /\ scaleK = 0
    /\ scaleNew = None

\* _map_plate(from_wells, to_wells)
CallMapPlate ==
    /\ convOut = None
    /\ scalePc = "call"
    /\ convOut' = [tag |-> "dict", v |-> _map_plate(scaleIn.from_wells, scaleIn.to_wells)]
    /\ UNCHANGED << scaleIn, scalePc, scaleK, scaleNew, combVars, normVars,
                    codecVars, rangeVars, enumVars, walkVars, mapVars,
                    fortVars, sizeVars >>

\* lines 491-498, the map is found
ScaleBegin ==
    /\ scalePc = "call"
    /\ << scaleIn.from_wells, scaleIn.to_wells >> \in StoredPairs
    /\ scalePc' = "loop"
    /\ scaleK' = 1
    /\ scaleNew' = [index |-> << >>, rows |-> << >>]
    /\ UNCHANGED << scaleIn, convOut, combVars, normVars,
                    codecVars, rangeVars, enumVars, walkVars, mapVars,
                    fortVars, sizeVars >>

\* lines 492-496, no map is found: the except branch calls
\* _plate_conversion_map, a name that is not defined (NameError)
ScaleNoMap ==
    /\ scalePc = "call"
    /\ << scaleIn.from_wells, scaleIn.to_wells >> \notin StoredPairs
    /\ scalePc' = "raise"
    /\ UNCHANGED << scaleIn, convOut, scaleK, scaleNew, combVars, normVars,
                    codecVars, rangeVars, enumVars, walkVars, mapVars,
                    fortVars, sizeVars >>

\* the row that the loop of line 499 is at, and what its body stores
ScaleName == scaleIn.spec.index[scaleK]

ScaleStep ==
    ScaleCells(scaleNew, scaleIn.spec.rows[ScaleName],
               _plate_conversion_maps(scaleIn.from_wells, scaleIn.to_wells)[ScaleName],
               1, scaleIn.include_row_column,
               DeleteRowColumn(scaleIn.spec, scaleIn.include_row_column))

\* the body of the loop raises: conversion_map[name] or del (KeyError)
ScaleFails ==
    \/ ScaleName \notin
        DOMAIN _plate_conversion_maps(scaleIn.from_wells, scaleIn.to_wells)
    \/ /\ ScaleName \in
            DOMAIN _plate_conversion_maps(scaleIn.from_wells, scaleIn.to_wells)
       /\ _plate_conversion_maps(scaleIn.from_wells, scaleIn.to_wells)[ScaleName] # << >>
       /\ DelFails(scaleIn.spec.rows[ScaleName], scaleIn.include_row_column,
                   DeleteRowColumn(scaleIn.spec, scaleIn.include_row_column))

\* lines 499-506: one row of spec
ScaleRow ==
    /\ scalePc = "loop"
    /\ scaleK <= Len(scaleIn.spec.index)
    /\ ~ScaleFails
    /\ scaleNew' = ScaleStep
    /\ scaleK' = scaleK + 1
    /\ UNCHANGED << scaleIn, convOut, scalePc, combVars, normVars,
                    codecVars, rangeVars, enumVars, walkVars, mapVars,
                    fortVars, sizeVars >>

ScaleRaise ==
    /\ scalePc = "loop"
    /\ scaleK <= Len(scaleIn.spec.index)
    /\ ScaleFails
    /\ scalePc' = "raise"
    /\ UNCHANGED << scaleIn, convOut, scaleK, scaleNew, combVars, normVars,
                    codecVars, rangeVars, enumVars, walkVars, mapVars,
                    fortVars, sizeVars >>

\* line 508
ScaleReturn ==
    /\ scalePc = "loop"
    /\ scaleK > Len(scaleIn.spec.index)
    /\ scalePc' = "done"
    /\ UNCHANGED << scaleIn, convOut, scaleK, scaleNew, combVars, normVars,
                    codecVars, rangeVars, enumVars, walkVars, mapVars,
                    fortVars, sizeVars >>

ScaleNext ==
    \/ CallMapPlate
    \/ ScaleBegin
    \/ ScaleNoMap
    \/ ScaleRow
    \/ ScaleRaise
    \/ ScaleReturn

SpecScale == ScaleInit /\ [][ScaleNext]_vars

(***************************************************************************)
(* Plate combiner (data.py:358-432).  The layout is a list of lists of     *)
(* frames; each frame has the columns plate, which holds the frame's       *)
(* position (i, j) in the layout, and v, which holds the name of the       *)
(* row's well.                                                             *)
(***************************************************************************)
MaxGrid == 4

MaxCombRows == 24

\* lines 409 and 411 with the check of the columns left out
CombFits_RowsOnly(dims_from, dims_to, n_plate_rows, n_plate_cols) ==
    dims_from[1] * n_plate_rows = dims_to[1]

\* lines 409-412: the plates of the layout fit in the destination plate
CombFits(dims_from, dims_to, n_plate_rows, n_plate_cols) ==
    /\ dims_from[1] * n_plate_rows = dims_to[1]
    /\ dims_from[2] * n_plate_cols = dims_to[2]

\* lines 418-426 with the plate's position added before the multiplication
CombPlace_Scaled(t, i, j, dims_from, dims_to, interleave_rows, interleave_columns) ==
    LET ratio_rows == dims_to[1] \div dims_from[1]
        ratio_cols == dims_to[2] \div dims_from[2]
    IN  << IF interleave_rows THEN ratio_rows * (t[1] + (i % ratio_rows))
           ELSE t[1] + (dims_from[1] * i),
           IF interleave_columns THEN ratio_cols * (t[2] + (j % ratio_cols))
           ELSE t[2] + (dims_from[2] * j) >>

\* lines 405-406, 418-426: the coordinate on the destination plate of the
\* well at coordinate t of the plate at position (i, j) of the layout
CombPlace(t, i, j, dims_from, dims_to, interleave_rows, interleave_columns) ==
    LET ratio_rows == dims_to[1] \div dims_from[1]
        ratio_cols == dims_to[2] \div dims_from[2]
    IN  << IF interleave_rows THEN (ratio_rows * t[1]) + (i % ratio_rows)
           ELSE t[1] + (dims_from[1] * i),
           IF interleave_columns THEN (ratio_cols * t[2]) + (j % ratio_cols)
           ELSE t[2] + (dims_from[2] * j) >>

\* lines 416-431: the loop over the rows of the plate at (i, j), from its
\* k-th row on. newspec is read at every turn (its length is never
\* negative), so that it is built row by row, in the order in which the loop
\* builds it.
RECURSIVE CombRows(_, _, _, _, _, _)
CombRows(newspec, plate, i, j, k, in) ==
    IF k > Len(plate.index) \/ Len(newspec.index) < 0 THEN newspec
    ELSE LET cell == plate.index[k]
             t == CombPlace(cell2tuple(cell).v, i, j, plates[in.wells_from],
                            plates[in.wells_to], in.interleave_rows, in.interleave_columns)
             row == IF in.source_well # None
                    THEN SetItem(plate.rows[cell], in.source_well.v, cell)
                    ELSE plate.rows[cell]
         IN  CombRows(PutRow(newspec, tuple2cell(t[1], t[2]), row), plate, i, j, k + 1, in)

(***************************************************************************)
(* Calls of combine_plate_dataframes.                                      *)
(***************************************************************************)
\* the frame at position (i, j) of a layout, with the given wells
CombFrame(i, j, index) ==
    [index |-> index,
     rows |-> [cell \in SeqRange(index) |-> [plate |-> << i, j >>, v |-> cell]]]

\* the wells of the frames of a layout: the last and the first well of the
\* from-plate, or every well of a from-plate of at most MaxCombRows wells
CombIndexes(wells_from) ==
    { << PlateWells(wells_from)[Len(PlateWells(wells_from))], PlateWells(wells_from)[1] >> }
        \cup (IF wells_from <= MaxCombRows THEN { PlateWells(wells_from) } ELSE { })

CombInit ==
    /\ CodecIdle /\ RangeIdle /\ EnumIdle /\ WalkIdle /\ MapIdle /\ ScaleIdle /\ NormIdle
    /\ FortIdle /\ SizeIdle
    /\ \E wells_from \in PlateSizes, wells_to \in PlateSizes :
       \E n_rows \in 0..MaxGrid, n_cols \in 1..MaxGrid :
       \E index \in CombIndexes(wells_from) :
       \E interleave_rows \in BOOLEAN, interleave_columns \in BOOLEAN :
       \E source_well \in { None, PyStr("source") } :
        combIn = [layout |-> [i \in 1..n_rows |->
                                [j \in 1..n_cols |-> CombFrame(i - 1, j - 1, index)]],
                  wells_from |-> wells_from, wells_to |-> wells_to,
                  interleave_rows |-> interleave_rows,
                  interleave_columns |-> interleave_columns,
                  source_well |-> source_well]
    /\ combPc = "call"
    /\ combK = 0
    /\ combNew = None

\* lines 401-402: len(layout) and len(layout[0])
CombGrid == << Len(combIn.layout), Len(combIn.layout[1]) >>

\* lines 398-412, the layout fits
CombBegin ==
    /\ combPc = "call"
    /\ combIn.layout # << >>
    /\ CombFits(plates[combIn.wells_from], plates[combIn.wells_to], CombGrid[1], CombGrid[2])
    /\ combPc' = "loop"
    /\ combK' = 0
    /\ combNew' = [index |-> << >>, rows |-> << >>]
    /\ UNCHANGED << combIn, scaleVars, normVars,
                    codecVars, rangeVars, enumVars, walkVars, mapVars,
                    fortVars, sizeVars >>

\* lines 402, 410, 412: layout[0] raises IndexError on an empty layout, and
\* a layout that does not fit raises Exception
CombReject ==
    /\ combPc = "call"
    /\ \/ combIn.layout = << >>
       \/ /\ combIn.layout # << >>
          /\ ~CombFits(plates[combIn.wells_from], plates[combIn.wells_to],
                       CombGrid[1], CombGrid[2])
    /\ combPc' = "raise"
    /\ UNCHANGED << combIn, combK, combNew, scaleVars, normVars,
                    codecVars, rangeVars, enumVars, walkVars, mapVars,
                    fortVars, sizeVars >>

\* lines 414-431: one plate of the layout, in the order of the two loops
CombPlate ==
    /\ combPc = "loop"
    /\ combK < CombGrid[1] * CombGrid[2]
    /\ LET i == combK \div CombGrid[2]
           j == combK % CombGrid[2]
       IN  combNew' = CombRows(combNew, combIn.layout[i + 1][j + 1], i, j, 1, combIn)
    /\ combK' = combK + 1
    /\ UNCHANGED << combIn, combPc, scaleVars, normVars,
                    codecVars, rangeVars, enumVars, walkVars, mapVars,
                    fortVars, sizeVars >>

\* line 432
CombReturn ==
    /\ combPc = "loop"
    /\ combK = CombGrid[1] * CombGrid[2]
    /\ combPc' = "done"
    /\ UNCHANGED << combIn, combK, combNew, scaleVars, normVars,
                    codecVars, rangeVars, enumVars, walkVars, mapVars,
                    fortVars, sizeVars >>

CombNext ==
    \/ CombBegin
    \/ CombReject
    \/ CombPlate
    \/ CombReturn

SpecComb == CombInit /\ [][CombNext]_vars

(***************************************************************************)
(* Grouped normalizer (calculate.py:9-153).  A frame is the list of its    *)
(* rows, each a Series over the columns well, OD600, time and conc; every  *)
(* value is written as a string and "nan" is the missing value.  The       *)
(* transform `how` is its list of parameter names and what it computes.    *)
(***************************************************************************)
MaxNormRows == 2

\* the values of the frames given, in the order that sorting puts them in
NormOrder == << "0", "1", "A1", "A2", "a", "b", "v1", "v2", "v3" >>

\* a tuple of values is before another one (tuples compare item by item)
RECURSIVE NameLess(_, _)
NameLess(a, b) ==
    IF a = << >> \/ b = << >> THEN FALSE
    ELSE IF a[1] # b[1] THEN IndexOf(NormOrder, a[1]) < IndexOf(NormOrder, b[1])
    ELSE NameLess(Tail(a), Tail(b))

\* a set of tuples as the sorted list
RECURSIVE SortedNames(_)
SortedNames(S) ==
    IF S = { } THEN << >>
    ELSE LET first == CHOOSE a \in S : \A b \in S : ~NameLess(b, a)
         IN  << first >> \o SortedNames(S \ { first })

\* lines 108-109: cols.remove(on) when on is in cols (the first occurrence)
RECURSIVE RemoveFirst(_, _)
RemoveFirst(cols, on) ==
    IF cols = << >> THEN << >>
    ELSE IF cols[1] = on THEN Tail(cols)
    ELSE << cols[1] >> \o RemoveFirst(Tail(cols), on)

\* the group name of a row: its values in the columns cols
NameOf(row, cols) == [k \in 1..Len(cols) |-> row[cols[k]]]

\* line 134: the names of the groups that df.groupby(cols) iterates over, in
\* its order; a row that holds nan in a column of cols is in no group
GroupNames(df, cols) ==
    SortedNames({ NameOf(df[k], cols) :
                    k \in { x \in 1..Len(df) : \A c \in SeqRange(cols) : df[x][c] # "nan" } })

\* the rows of the group with the given name, in the frame's order
RECURSIVE GroupRows(_, _, _)
GroupRows(df, cols, name) ==
    IF df = << >> THEN << >>
    ELSE (IF NameOf(df[1], cols) = name THEN << df[1] >> ELSE << >>)
            \o GroupRows(Tail(df), cols, name)

\* lines 124-129, 146: the call of the transform raises TypeError: a how of
\* more than two parameters is called with the keywords name and group
TransformFails(how) ==
    /\ Len(how.params) > 2
    /\ \/ Len(how.params) > 3
       \/ { how.params[2], how.params[3] } # { "name", "group" }

\* lines 123-129, 146: the call of `how` that the transform makes for the
\* group with the given name: what `how` is given
HowCall(how, name) ==
    [args |-> IF Len(how.params) = 1 THEN << "column" >>
              ELSE IF Len(how.params) = 2 THEN << "column", "name" >>
              ELSE << "column", "name", "group" >>,
     name |-> name]

\* lines 146-149: the frame of one group after the transform; the identity
\* returns the column as it is
Transformed(how, group, value) ==
    [k \in 1..Len(group) |-> [group[k] EXCEPT ![value] = group[k][value]]]

\* line 153: pd.concat of a list of frames
RECURSIVE Concat(_)
Concat(dfs) == IF dfs = << >> THEN << >> ELSE dfs[1] \o Concat(Tail(dfs))

(***************************************************************************)
(* Calls of calc_norm with value='OD600' and on='time'.                    *)
(***************************************************************************)
\* the rows of the frames given; the k-th row of a frame holds v<k>
NormRow(k) ==
    { [well |-> w, OD600 |-> NormOrder[6 + k], time |-> t, conc |-> c] :
        w \in { "A1", "A2" }, t \in { "0", "1" }, c \in { "a", "b", "nan" } }

\* the lists given as `columns`
NormColumns ==
    { << "time", "conc" >>, << "conc" >>, << "conc", "well" >>, << "time" >> }

\* the transforms given: the identity, written with one, two or three
\* parameters
NormHows ==
    { [params |-> ps, f |-> "identity"] :
        ps \in { << "x" >>, << "x", "n" >>, << "x", "name", "group" >>, << "x", "n", "g" >> } }

NormInit ==
    /\ CodecIdle /\ RangeIdle /\ EnumIdle /\ WalkIdle /\ MapIdle /\ ScaleIdle /\ CombIdle
    /\ FortIdle /\ SizeIdle
    /\ \E n \in 0..MaxNormRows :
       \E df \in { f \in [1..n -> UNION { NormRow(k) : k \in 1..n }] :
                     \A k \in 1..n : f[k] \in NormRow(k) } :
       \E columns \in NormColumns, how \in NormHows :
        normIn = [df |-> df, value |-> "OD600", on |-> "time",
                  columns |-> columns, how |-> how]
    /\ normPc = "call"
    /\ normCols = normIn.columns
    /\ normGroups = << >>
    /\ normNew = << >>
    /\ normCalls = << >>

\* lines 102-134: cols is the caller's list, with `on` removed from it; the
\* groups are made
NormBegin ==
    /\ normPc = "call"
    /\ RemoveFirst(normCols, normIn.on) # << >>
    /\ normCols' = RemoveFirst(normCols, normIn.on)
    /\ normGroups' = GroupNames(normIn.df, normCols')
    /\ normPc' = "loop"
    /\ UNCHANGED << normIn, normNew, normCalls, scaleVars, combVars,
                    codecVars, rangeVars, enumVars, walkVars, mapVars,
                    fortVars, sizeVars >>

\* lines 134-150: one group
NormGroup ==
    /\ normPc = "loop"
    /\ normGroups # << >>
    /\ ~TransformFails(normIn.how)
    /\ normNew' = Append(normNew,
                         Transformed(normIn.how,
                                     GroupRows(normIn.df, normCols, normGroups[1]),
                                     normIn.value))
    /\ normCalls' = Append(normCalls, HowCall(normIn.how, normGroups[1]))
    /\ normGroups' = Tail(normGroups)
    /\ UNCHANGED << normIn, normPc, normCols, scaleVars, combVars,
                    codecVars, rangeVars, enumVars, walkVars, mapVars,
                    fortVars, sizeVars >>

\* line 134: groupby of an empty list raises ValueError; line 146: the call
\* of the transform raises TypeError; line 153: concat of an empty list
\* raises ValueError
NormRaise ==
    /\ \/ /\ normPc = "call"
          /\ RemoveFirst(normCols, normIn.on) = << >>
          /\ normCols' = << >>
       \/ /\ normPc = "loop"
          /\ normGroups # << >>
          /\ TransformFails(normIn.how)
          /\ UNCHANGED normCols
       \/ /\ normPc = "loop"
          /\ normGroups = << >>
          /\ normNew = << >>
          /\ UNCHANGED normCols
    /\ normPc' = "raise"
    /\ UNCHANGED << normIn, normGroups, normNew, normCalls, scaleVars, combVars,
                    codecVars, rangeVars, enumVars, walkVars, mapVars,
                    fortVars, sizeVars >>

\* line 153
NormReturn ==
    /\ normPc = "loop"
    /\ normGroups = << >>
    /\ normNew # << >>
    /\ normPc' = "done"
    /\ UNCHANGED << normIn, normCols, normGroups, normNew, normCalls, scaleVars, combVars,
                    codecVars, rangeVars, enumVars, walkVars, mapVars,
                    fortVars, sizeVars >>

NormNext ==
    \/ NormBegin
    \/ NormGroup
    \/ NormRaise
    \/ NormReturn

SpecNorm == NormInit /\ [][NormNext]_vars

(***************************************************************************)
(* Well index finder (data.py:547-584).  A DataFrame is the name of its    *)
(* index (None when it has none), the labels of its index, the names of    *)
(* its columns and, for every column, the list of its values.              *)
(***************************************************************************)
MaxFortRows == 2

\* str.lower() of one character, and of a string
Lower(ch) == IF ch \in SeqRange(_alpha) THEN LowerCase[IndexOf(_alpha, ch)] ELSE ch

LowerStr(s) == [k \in 1..Len(s) |-> Lower(s[k])]

Frame(name, index, columns, data) ==
    [tag |-> "frame", name |-> name, index |-> index, columns |-> columns, data |-> data]

\* line 556: names
FortNames == << << "w", "e", "l", "l" >>, << "w", "e", "l", "l", "s" >> >>

\* df.index.rename('well', inplace=True)
RenameIndex(df) == [df EXCEPT !.name = PyStr(FortNames[1])]

\* df.set_index(well_col, inplace=True): the column becomes the index, the
\* index the frame had is dropped
SetIndex(df, well_col) ==
    LET at == IndexOf(df.columns, well_col)
        columns == [k \in 1..(Len(df.columns) - 1) |->
                      IF k < at THEN df.columns[k] ELSE df.columns[k + 1]]
    IN  Frame(PyStr(well_col), df.data[well_col], columns,
              [c \in SeqRange(columns) |-> df.data[c]])

\* lines 571-577 with the index looked at after the columns
fortify_plate_ColumnFirst(df) ==
    LET columns == [k \in 1..Len(df.columns) |-> LowerStr(df.columns[k])]
    IN  IF FortNames[1] \in SeqRange(columns)
        THEN RenameIndex(SetIndex(df, df.columns[IndexOf(columns, FortNames[1])]))
        ELSE IF FortNames[2] \in SeqRange(columns)
        THEN RenameIndex(SetIndex(df, df.columns[IndexOf(columns, FortNames[2])]))
        ELSE IF df.name # None /\ LowerStr(df.name.v) \in SeqRange(FortNames)
        THEN RenameIndex(df)
        ELSE IF \A k \in 1..Len(df.index) : is_well(df.index[k])
        THEN RenameIndex(df)
        ELSE Raise("Exception")

\* lines 558-584, on the frame that the function works on: the frame
\* returned, or the exception raised
fortify_plate(df) ==
    IF df.name # None /\ LowerStr(df.name.v) \in SeqRange(FortNames)
    THEN RenameIndex(df)
    ELSE IF \A k \in 1..Len(df.index) : is_well(df.index[k])
    THEN RenameIndex(df)
    ELSE LET columns == [k \in 1..Len(df.columns) |-> LowerStr(df.columns[k])]
         IN  IF FortNames[1] \in SeqRange(columns)
             THEN RenameIndex(SetIndex(df, df.columns[IndexOf(columns, FortNames[1])]))
             ELSE IF FortNames[2] \in SeqRange(columns)
             THEN RenameIndex(SetIndex(df, df.columns[IndexOf(columns, FortNames[2])]))
             ELSE Raise("Exception")

(***************************************************************************)
(* Calls of fortify_plate.  The columns of the frames given have names     *)
(* that differ also when written in lower case.                            *)
(***************************************************************************)
\* the names that the index of a frame has: none, well, Wells, WELL, foo
FortIndexNames ==
    { None, PyStr(<< "w", "e", "l", "l" >>), PyStr(<< "W", "e", "l", "l", "s" >>),
      PyStr(<< "W", "E", "L", "L" >>), PyStr(<< "f", "o", "o" >>) }

\* the labels that the index of a frame holds: A1, b12, x, 0
FortLabels == { << "A", "1" >>, << "b", "1", "2" >>, << "x" >>, << "0" >> }

\* the names that the columns of a frame have: OD600, Well, wells, foo
FortColumns ==
    { << "O", "D", "6", "0", "0" >>, << "W", "e", "l", "l" >>,
      << "w", "e", "l", "l", "s" >>, << "f", "o", "o" >> }

\* the value of the column c in the k-th row: the well of row k on the
\* plate for the columns Well and wells (in lower case for wells)
FortValue(c, k) ==
    IF c = << "W", "e", "l", "l" >> THEN tuple2well(k - 1, 0)
    ELSE IF c = << "w", "e", "l", "l", "s" >> THEN LowerStr(tuple2well(k - 1, 1))
    ELSE c \o IntToStr(k)

FortInit ==
    /\ CodecIdle /\ RangeIdle /\ EnumIdle /\ WalkIdle /\ MapIdle
    /\ ScaleIdle /\ CombIdle /\ NormIdle /\ SizeIdle
    /\ \E name \in FortIndexNames, inplace \in BOOLEAN :
       \E n \in 0..MaxFortRows : \E index \in [1..n -> FortLabels] :
       \E m \in 0..2 : \E columns \in [1..m -> FortColumns] :
        /\ \A i, j \in 1..m : columns[i] = columns[j] => i = j
        /\ fortIn = [df |-> Frame(name, index, columns,
                                  [c \in SeqRange(columns) |->
                                      [k \in 1..n |-> FortValue(c, k)]]),
                     inplace |-> inplace]
    /\ fortPc = "call"
    /\ fortDf = fortIn.df
    /\ fortOut = None

\* lines 558-577: one of the three searches finds the wells; with inplace
\* the frame that is changed and returned is the caller's
FortReturn ==
    /\ fortPc = "call"
    /\ fortify_plate(fortIn.df).tag = "frame"
    /\ fortOut' = fortify_plate(fortIn.df)
    /\ fortDf' = IF fortIn.inplace THEN fortify_plate(fortIn.df) ELSE fortDf
    /\ fortPc' = "done"
    /\ UNCHANGED << fortIn, scaleVars, combVars, normVars, sizeVars,
                    codecVars, rangeVars, enumVars, walkVars, mapVars >>

\* lines 581-584
FortRaise ==
    /\ fortPc = "call"
    /\ fortify_plate(fortIn.df).tag = "raise"
    /\ fortPc' = "raise"
    /\ UNCHANGED << fortIn, fortDf, fortOut, scaleVars, combVars, normVars, sizeVars,
                    codecVars, rangeVars, enumVars, walkVars, mapVars >>

FortNext ==
    \/ FortReturn
    \/ FortRaise

SpecFort == FortInit /\ [][FortNext]_vars

(***************************************************************************)
(* Plate size finder (utils.py:413-468).                                   *)
(***************************************************************************)
MaxSizeCells == 2

\* lines 14-22: the keys of `plates` in the order in which the dict holds
\* them
PlateOrder == << 6, 12, 24, 48, 96, 384, 1536 >>

\* max() of a list of integers that is not empty
RECURSIVE MaxOf(_)
MaxOf(s) == IF Len(s) = 1 THEN s[1] ELSE Max(s[1], MaxOf(Tail(s)))

\* min() of a list of integers that is not empty
RECURSIVE MinOf(_)
MinOf(s) == IF Len(s) = 1 THEN s[1] ELSE Min(s[1], MinOf(Tail(s)))

\* lines 457-459 with >= in place of >
RECURSIVE PossiblePlates_Inclusive(_, _, _)
PossiblePlates_Inclusive(k, max_row, max_col) ==
    IF k > Len(PlateOrder) THEN << >>
    ELSE (IF plates[PlateOrder[k]][1] >= max_row /\ plates[PlateOrder[k]][2] >= max_col
          THEN << PlateOrder[k] >> ELSE << >>)
            \o PossiblePlates_Inclusive(k + 1, max_row, max_col)

\* lines 456-459: the loop over `plates`, from its k-th key on
RECURSIVE PossiblePlates(_, _, _)
PossiblePlates(k, max_row, max_col) ==
    IF k > Len(PlateOrder) THEN << >>
    ELSE (IF plates[PlateOrder[k]][1] > max_row /\ plates[PlateOrder[k]][2] > max_col
          THEN << PlateOrder[k] >> ELSE << >>)
            \o PossiblePlates(k + 1, max_row, max_col)

PyList(s) == [tag |-> "list", v |-> s]

\* lines 450-467: the value returned, or the exception raised
infer_plate_size(cells, all, prefer96, prefer) ==
    LET pref == IF prefer96 THEN PyInt(96) ELSE prefer
        tuples == [k \in 1..Len(cells) |-> cell2tuple(cells[k])]
    IN  IF \E k \in 1..Len(cells) : tuples[k].tag = "raise" THEN Raise("KeyError")
        ELSE IF \E k \in 1..Len(cells) : tuples[k].tag = "None" THEN Raise("TypeError")
        ELSE IF cells = << >> THEN Raise("ValueError")
        ELSE LET max_row == MaxOf([k \in 1..Len(cells) |-> tuples[k].v[1]])
                 max_col == MaxOf([k \in 1..Len(cells) |-> tuples[k].v[2]])
                 possible_plates == PossiblePlates(1, max_row, max_col)
             IN  IF all THEN PyList(possible_plates)
                 ELSE IF pref # None /\ pref.v \in SeqRange(possible_plates) THEN pref
                 ELSE IF possible_plates = << >> THEN Raise("ValueError")
                 ELSE PyInt(MinOf(possible_plates))

(***************************************************************************)
(* Calls of infer_plate_size.                                              *)
(***************************************************************************)
\* the wells given: A1, A6, B3, C1, D6, H12, H13, P24, AF48, AG1, A49
SizeWells ==
    { << 0, 0 >>, << 0, 5 >>, << 1, 2 >>, << 2, 0 >>, << 3, 5 >>, << 7, 11 >>, << 7, 12 >>,
      << 15, 23 >>, << 31, 47 >>, << 32, 0 >>, << 0, 48 >> }

SizeNames == { tuple2well(t[1], t[2]) : t \in SizeWells }

\* the values given as prefer: none, three plate sizes and a number that is
\* no plate size
SizePrefers == << None, PyInt(24), PyInt(96), PyInt(384), PyInt(100) >>

SizeInit ==
    /\ CodecIdle /\ RangeIdle /\ EnumIdle /\ WalkIdle /\ MapIdle
    /\ ScaleIdle /\ CombIdle /\ NormIdle /\ FortIdle
    /\ \E n \in 0..MaxSizeCells : \E cells \in [1..n -> SizeNames] :
       \E all \in BOOLEAN, prefer96 \in BOOLEAN : \E p \in 1..Len(SizePrefers) :
        sizeIn = [cells |-> cells, all |-> all, prefer96 |-> prefer96,
                  prefer |-> SizePrefers[p]]
    /\ sizePc = "call"
    /\ sizeOut = None

\* lines 461-467
SizeReturn ==
    /\ sizePc = "call"
    /\ infer_plate_size(sizeIn.cells, sizeIn.all, sizeIn.prefer96, sizeIn.prefer).tag # "raise"
    /\ sizeOut' = infer_plate_size(sizeIn.cells, sizeIn.all, sizeIn.prefer96, sizeIn.prefer)
    /\ sizePc' = "done"
    /\ UNCHANGED << sizeIn, scaleVars, combVars, normVars, fortVars,
                    codecVars, rangeVars, enumVars, walkVars, mapVars >>

\* lines 454-455, 467: max() and min() of an empty list raise ValueError
SizeRaise ==
    /\ sizePc = "call"
    /\ infer_plate_size(sizeIn.cells, sizeIn.all, sizeIn.prefer96, sizeIn.prefer).tag = "raise"
    /\ sizePc' = "raise"
    /\ UNCHANGED << sizeIn, sizeOut, scaleVars, combVars, normVars, fortVars,
                    codecVars, rangeVars, enumVars, walkVars, mapVars >>

SizeNext ==
    \/ SizeReturn
    \/ SizeRaise

SpecSize == SizeInit /\ [][SizeNext]_vars

(***************************************************************************)
(* Properties of the codec.                                                *)
(***************************************************************************)
\* the letters of a string are all upper case and its digits are the
\* decimal numeral str() writes (no leading zero)
IsCanonicalName(s) ==
    LET m == CellRegexMatch(s)
    IN  /\ is_well(s)
        /\ \A k \in 1..Len(m.g1) : m.g1[k] \in SeqRange(_alpha)
        /\ (Len(m.g2) = 1 \/ m.g2[1] # "0")

\* is_well accepts the string and its letters are all upper case
HasUpperCaseRow(s) ==
    /\ is_well(s)
    /\ \A k \in 1..Len(CellRegexMatch(s).g1) : CellRegexMatch(s).g1[k] \in SeqRange(_alpha)

\* a numeral without its leading zeros; its last digit is kept
RECURSIVE StripZeros(_)
StripZeros(d) == IF Len(d) > 1 /\ d[1] = "0" THEN StripZeros(Tail(d)) ELSE d

\* a well name with the leading zeros of its numeral removed
ShorterName(s) == CellRegexMatch(s).g1 \o StripZeros(CellRegexMatch(s).g2)

\* the successor of a string of upper-case letters in length-then-alphabetical
\* order: A..Z, AA..AZ, BA.., ZZ, AAA, ..
RECURSIVE NextLetters(_)
NextLetters(s) ==
    IF s = << >> THEN << "A" >>
    ELSE IF s[Len(s)] = "Z" THEN NextLetters(SubSeq(s, 1, Len(s) - 1)) \o << "A" >>
    ELSE SubSeq(s, 1, Len(s) - 1) \o << _alpha[IndexOf(_alpha, s[Len(s)]) + 1] >>

IsUpperLetters(s) == s # << >> /\ \A k \in 1..Len(s) : s[k] \in SeqRange(_alpha)

\* C1: for every row r in 0..699 and column c in 0..49 (here 0..MaxRow and
\* 0..MaxCol), well2tuple(tuple2well(r, c)) returns exactly (r, c).
C1_DecodeEncode ==
    (codecCalls = << "tuple2well", "well2tuple" >> /\ codecIn.tag = "tuple")
        => codecOut = codecIn

\* C1 witness: (699, 49) has been encoded and decoded back.
C1_Witness ==
    /\ codecCalls = << "tuple2well", "well2tuple" >>
    /\ codecIn = PyTuple(699, 49)
    /\ codecOut = PyTuple(699, 49)

\* C2 as stated: for every string x that is_well accepts,
\* tuple2well(well2tuple(x)) returns x itself.
C2_EncodeDecodeAnyName ==
    (codecCalls = << "well2tuple", "tuple2well" >> /\ codecIn.tag = "str"
        /\ is_well(codecIn.v))
        => codecOut = codecIn

\* C2 amended: for every well name written with upper-case letters and a
\* column numeral without leading zero, well2tuple returns a coordinate and
\* tuple2well of that coordinate returns the name itself; for every well
\* name written with upper-case letters and a numeral with leading zeros,
\* well2tuple returns the coordinate it returns for the name without them,
\* and tuple2well of that coordinate returns the name without them.
C2_EncodeDecodeCanonical ==
    /\ (codecIn.tag = "str" /\ IsCanonicalName(codecIn.v))
        => /\ codecCalls = << "well2tuple" >> => codecOut.tag = "tuple"
           /\ codecCalls = << "well2tuple", "tuple2well" >> => codecOut = codecIn
    /\ (codecIn.tag = "str" /\ HasUpperCaseRow(codecIn.v) /\ ~IsCanonicalName(codecIn.v))
        => /\ ShorterName(codecIn.v) # codecIn.v
           /\ IsCanonicalName(ShorterName(codecIn.v))
           /\ codecCalls = << "well2tuple" >> =>
                /\ codecOut.tag = "tuple"
                /\ codecOut = well2tuple(ShorterName(codecIn.v))
           /\ codecCalls = << "well2tuple", "tuple2well" >> =>
                codecOut = PyStr(ShorterName(codecIn.v))

\* C2 witness: AB01 has been decoded to (27, 0) and encoded back as AB1.
C2_Witness ==
    /\ codecCalls = << "well2tuple", "tuple2well" >>
    /\ codecIn = PyStr(<< "A", "B", "0", "1" >>)
    /\ codecOut = PyStr(<< "A", "B", "1" >>)

\* C3: rows are encoded in bijective base 26: the listed examples hold, the
\* letters of row r+1 are the successor of the letters of row r in
\* length-then-alphabetical order, and row2letters and letters2row are
\* inverse to each other.
C3_BijectiveBase26 ==
    /\ (codecCalls = << "tuple2well" >> /\ codecIn.tag = "tuple") =>
        /\ codecIn = PyTuple(0, 0) => codecOut = PyStr(<< "A", "1" >>)
        /\ codecIn = PyTuple(25, 0) => codecOut = PyStr(<< "Z", "1" >>)
        /\ codecIn = PyTuple(26, 0) => codecOut = PyStr(<< "A", "A", "1" >>)
        /\ codecIn = PyTuple(27, 0) => codecOut = PyStr(<< "A", "B", "1" >>)
        /\ codecIn = PyTuple(51, 0) => codecOut = PyStr(<< "A", "Z", "1" >>)
        /\ codecIn = PyTuple(52, 0) => codecOut = PyStr(<< "B", "A", "1" >>)
    /\ (codecCalls = << "letters2row" >> /\ codecIn.tag = "str") =>
        /\ codecIn.v = << "A" >> => codecOut = PyInt(0)
        /\ codecIn.v = << "Z" >> => codecOut = PyInt(25)
        /\ codecIn.v = << "A", "A" >> => codecOut = PyInt(26)
        /\ codecIn.v = << "A", "B" >> => codecOut = PyInt(27)
        /\ codecIn.v = << "B", "A" >> => codecOut = PyInt(52)
    /\ (codecCalls = << "row2letters" >> /\ codecIn.tag = "int") =>
        codecOut.v = IF codecIn.v = 0 THEN << "A" >>
                     ELSE NextLetters(row2letters(codecIn.v - 1))
    /\ (codecCalls = << "row2letters", "letters2row" >> /\ codecIn.tag = "int") =>
        codecOut = codecIn
    /\ (codecCalls = << "letters2row", "row2letters" >> /\ codecIn.tag = "str"
            /\ IsUpperLetters(codecIn.v)) =>
        codecOut = codecIn

\* C3 witness: row 702, the first with three letters, has been encoded as AAA
\* and decoded back.
C3_Witness ==
    /\ codecCalls = << "row2letters", "letters2row" >>
    /\ codecIn = PyInt(702)
    /\ codecOut = PyInt(702)
    /\ row2letters(702) = << "A", "A", "A" >>

\* C4 as stated: well2tuple reads the row letters case-insensitively: a name
\* that is_well accepts decodes to what its upper-case spelling decodes to.
C4_CaseInsensitive ==
    (codecCalls = << "well2tuple" >> /\ codecIn.tag = "str" /\ is_well(codecIn.v))
        => codecOut = well2tuple(UpperStr(codecIn.v))

\* C5 as stated: for every string that does not fully match <letters><digits>
\* well2tuple raises; it returns neither a coordinate nor None.
C5_RejectsNonNames ==
    (codecCalls = << "well2tuple" >> /\ codecIn.tag = "str" /\ ~is_well(codecIn.v))
        => codecOut.tag = "raise"

(***************************************************************************)
(* Properties of the range parser.                                         *)
(***************************************************************************)
\* the bounds ((min row, min column), (max row, max column)) of the
\* rectangle two wells span
Rectangle(a, b) ==
    PyPair(<< Min(a[1], b[1]), Min(a[2], b[2]) >>, << Max(a[1], b[1]), Max(a[2], b[2]) >>)

\* C6 as stated: for any two wells w1, w2 of the plate, range2tuple('w1:w2')
\* returns (top-left, bottom-right) of the rectangle they span, whichever
\* pair of opposite corners is written and in whichever order.
C6_CornersNormalised ==
    (rangeCall = "range2tuple" /\ rangeIn.kind = "well:well")
        => rangeOut = Rectangle(rangeIn.a, rangeIn.b)

\* C6, the case the code handles: when the two corners have one-letter rows
\* and are the top-left and bottom-right corners, in either order, or share
\* a row or a column, range2tuple returns the rectangle.
C6_MainDiagonal ==
    (/\ rangeCall = "range2tuple" /\ rangeIn.kind = "well:well"
     /\ rangeIn.a[1] < Len(_alpha) /\ rangeIn.b[1] < Len(_alpha)
     /\ (rangeIn.a[1] - rangeIn.b[1]) * (rangeIn.a[2] - rangeIn.b[2]) >= 0)
        => rangeOut = Rectangle(rangeIn.a, rangeIn.b)

\* C7 as stated: for every supported plate shape, range2tuple of 'X:Y'
\* (upper-case letters) returns ((min row, 0), (max row, columns - 1)) and
\* of 'm:n' returns ((0, min(m, n) - 1), (rows - 1, max(m, n) - 1)).
C7_FullSpans ==
    /\ (/\ rangeCall = "range2tuple" /\ rangeIn.kind = "row:row"
        /\ rangeIn.a \in SeqRange(_alpha) /\ rangeIn.b \in SeqRange(_alpha))
        => rangeOut = PyPair(<< Min(letters[rangeIn.a], letters[rangeIn.b]), 0 >>,
                             << Max(letters[rangeIn.a], letters[rangeIn.b]),
                                plates[rangeIn.wells][2] - 1 >>)
    /\ (rangeCall = "range2tuple" /\ rangeIn.kind = "column:column")
        => rangeOut = PyPair(<< 0, Min(rangeIn.a, rangeIn.b) - 1 >>,
                             << plates[rangeIn.wells][1] - 1,
                                Max(rangeIn.a, rangeIn.b) - 1 >>)

\* C7, the case the code handles: the same on the plate shapes of at most
\* 26 rows.
C7_FullSpansUpTo384 ==
    rangeIn.wells # 1536 => C7_FullSpans

(***************************************************************************)
(* Properties of the range enumerator.                                     *)
(***************************************************************************)
\* C8: itertuples(top_left, bottom_right, by) yields every coordinate of the
\* rectangle exactly once, rows * columns items, by='row' in increasing
\* (row, column) order and by='column' in increasing (column, row) order.
\* What a suspended generator has yielded so far is in that order and inside
\* the rectangle, and ends with the (i, j) it is suspended at; a generator
\* that is over has yielded all of the rectangle.
C8_RectangleOnce ==
    (/\ enumPc \in { "yield", "done" }
     /\ enumIn.x[1] <= enumIn.y[1]
     /\ enumIn.x[2] <= enumIn.y[2])
        => LET rectangle == (enumIn.x[1]..enumIn.y[1]) \X (enumIn.x[2]..enumIn.y[2])
           IN  /\ SeqRange(enumOut) \subseteq rectangle
               /\ \A k \in 1..(Len(enumOut) - 1) :
                    IF enumIn.by = "row"
                    THEN TupleLess(enumOut[k], enumOut[k + 1])
                    ELSE TupleLess(<< enumOut[k][2], enumOut[k][1] >>,
                                   << enumOut[k + 1][2], enumOut[k + 1][1] >>)
               /\ enumPc = "yield" => enumOut[Len(enumOut)] = << enumI, enumJ >>
               /\ enumPc = "done" =>
                    /\ Len(enumOut) = Cardinality(rectangle)
                    /\ SeqRange(enumOut) = rectangle

\* C8 witness: the rectangle (1,0)..(2,1) has been enumerated by column to
\* the end, as (1,0), (2,0), (1,1), (2,1).
C8_Witness ==
    /\ enumPc = "done"
    /\ enumIn = [x |-> << 1, 0 >>, y |-> << 2, 1 >>, by |-> "column"]
    /\ enumOut = << << 1, 0 >>, << 2, 0 >>, << 1, 1 >>, << 2, 1 >> >>

\* C9: in the default (row) order iterwells yields exactly n items; with N
\* wells in the plate and p the row-major position of start, item k (from 0)
\* is the well at position (p + k) mod N and, with plate=True, carries plate
\* start_plate + (p + k) div N.  While the generator is suspended at its
\* yield the item just yielded is not yet counted off n; the walk is over
\* with n items yielded.
C9_WalkWraps ==
    (walkPc \in { "loop", "yield", "done" } /\ walkIn.by # "columns")
        => LET N == NumWells(walkIn.wells)
               p == PositionOf(cell2tuple(walkIn.start).v, walkIn.wells)
               at(k) == WellAt((p + k) % N, walkIn.wells)
           IN  /\ walkPc # "yield" => Len(walkOut) = walkIn.n - walkN
               /\ walkPc = "yield" => Len(walkOut) = walkIn.n - walkN + 1
               /\ walkPc = "done" => Len(walkOut) = walkIn.n
               /\ \A k \in 0..(Len(walkOut) - 1) :
                    /\ walkOut[k + 1].well = tuple2well(at(k)[1], at(k)[2])
                    /\ walkIn.plate =>
                        walkOut[k + 1].plate = walkIn.start_plate + ((p + k) \div N)

\* C9 witness: a walk over the 6-well plate from B3 has ended with 14 items,
\* the last on the third plate.
C9_Witness ==
    /\ walkPc = "done"
    /\ walkIn.wells = 6 /\ walkIn.start = << "B", "3" >> /\ walkIn.n = 14
    /\ walkIn.plate /\ walkIn.start_plate = 0 /\ walkIn.by = "rows"
    /\ walkOut[2] = [plate |-> 1, well |-> << "A", "1" >>]
    /\ walkOut[14] = [plate |-> 3, well |-> << "A", "1" >>]

(***************************************************************************)
(* Properties of the platemap compiler.                                    *)
(***************************************************************************)
\* the cell (label, key) of the frame holds value
CellIs(data, label, key, value) ==
    << label, key >> \in DOMAIN data.cells /\ data.cells[<< label, key >>] = value

\* the cell (label, key) of the frame is NaN, or the frame lacks it
CellMissing(data, label, key) == << label, key >> \notin DOMAIN data.cells

\* the bounds of the rectangle that a part of a key names
PartRectangle(e) ==
    IF e.kind = "row:row"
    THEN << << Min(letters[e.a], letters[e.b]), 0 >>,
            << Max(letters[e.a], letters[e.b]), plates[e.wells][2] - 1 >> >>
    ELSE IF e.kind = "column:column"
    THEN << << 0, Min(e.a, e.b) - 1 >>, << plates[e.wells][1] - 1, Max(e.a, e.b) - 1 >> >>
    ELSE Rectangle(e.a, e.b).v

\* the part handled last was a range, and every array of its rule that has
\* the shape of the range has been spooled over it
LastPartSpooled ==
    LET rule == mapIn.prog[mapLast[1]]
        R == PartRectangle(rule.parts[mapLast[2]])
        dim == << R[2][1] - R[1][1] + 1, R[2][2] - R[1][2] + 1 >>
    IN  \A n \in 1..Len(rule.values) :
            (rule.values[n][2].tag = "list2" /\ Shape(rule.values[n][2]) = dim) =>
                \A a \in 0..(dim[1] - 1), b \in 0..(dim[2] - 1) :
                    CellIs(mapData, tuple2well(R[1][1] + a, R[1][2] + b),
                           rule.values[n][1], Scalar(rule.values[n][2].v[a + 1][b + 1]))

\* the part handled last is a range (not a single well)
LastPartIsRange ==
    /\ mapPc \in { "loop", "done" }
    /\ mapLast # << 0, 0 >>
    /\ mapIn.prog[mapLast[1]].parts[mapLast[2]].kind
        \in { "well:well", "row:row", "column:column" }

\* C10 as stated: when a value of a rule is an array whose shape is the
\* (rows, columns) of a comma-separated part of the key, then once that part
\* is handled the well at offset (a, b) from the part's top-left corner
\* holds element [a][b], for every part of the key.
C10_ArraySpooled == LastPartIsRange => LastPartSpooled

\* C10, the case the code handles: the same when the part is written from
\* its top-left and bottom-right corners, in either order; with the two
\* documented platemaps as examples.
C10_ArraySpooledMainDiagonal ==
    /\ (/\ LastPartIsRange
        /\ LET e == mapIn.prog[mapLast[1]].parts[mapLast[2]]
           IN  e.kind = "well:well" => (e.a[1] - e.b[1]) * (e.a[2] - e.b[2]) >= 0)
        => LastPartSpooled
    /\ (/\ mapPc = "done" /\ mapIn.wells = 96 /\ Len(mapIn.prog) = 1
        /\ mapIn.prog[1].key = << "B", "1", ":", "C", "2", ",", "E", "1", ":", "F", "2" >>
        /\ mapIn.prog[1].values = MapValues[1])
        => /\ CellIs(mapData, << "B", "1" >>, "conc", Scalar("0"))
           /\ CellIs(mapData, << "E", "1" >>, "conc", Scalar("0"))
           /\ CellIs(mapData, << "B", "2" >>, "conc", Scalar("1"))
           /\ CellIs(mapData, << "E", "2" >>, "conc", Scalar("1"))
           /\ CellIs(mapData, << "C", "1" >>, "conc", Scalar("2"))
           /\ CellIs(mapData, << "F", "1" >>, "conc", Scalar("2"))
           /\ CellIs(mapData, << "C", "2" >>, "conc", Scalar("3"))
           /\ CellIs(mapData, << "F", "2" >>, "conc", Scalar("3"))
    /\ (/\ mapPc = "done" /\ Len(mapIn.prog) = 1
        /\ mapIn.prog[1].key = << "A", "1", ":", "A", "3" >>
        /\ mapIn.prog[1].values = MapValues[2])
        => /\ CellIs(mapData, << "A", "1" >>, "concentration", Scalar("0"))
           /\ CellIs(mapData, << "A", "2" >>, "concentration", Scalar("10"))
           /\ CellIs(mapData, << "A", "3" >>, "concentration", Scalar("100"))
           /\ CellMissing(mapData, << "A", "4" >>, "concentration")

\* the coordinates of the wells that a part of a key names: the rectangle
\* of a range, the well of a well name, none for any other text
PartCoords(e) ==
    IF e.kind = "well" THEN { e.a }
    ELSE IF e.kind = "text" THEN { }
    ELSE LET R == PartRectangle(e)
         IN  (R[1][1]..R[2][1]) \X (R[1][2]..R[2][2])

\* the (rule, part) positions of the platemap, and declaration order on them
PartPositions ==
    { q \in (1..Len(mapIn.prog)) \X (1..MaxParts) : q[2] <= Len(mapIn.prog[q[1]].parts) }

Earlier(q1, q2) == q1[1] < q2[1] \/ (q1[1] = q2[1] /\ q1[2] < q2[2])

\* the part at position q gives the well at coordinate c a value for the
\* n-th variable of its rule
PartNames(q, c) == c \in PartCoords(mapIn.prog[q[1]].parts[q[2]])

\* the value that the part at position q gives the well at c for the n-th
\* variable of its rule
PartValue(q, c, n) ==
    LET rule == mapIn.prog[q[1]]
        e == rule.parts[q[2]]
        R == PartRectangle(e)
    IN  IF e.kind = "well" THEN rule.values[n][2]
        ELSE Spooled(rule.values[n][2], c[1] - R[1][1], c[2] - R[1][2],
                     << R[2][1] - R[1][1] + 1, R[2][2] - R[1][2] + 1 >>)

\* every part of every key is a range or a well name written in upper case
AllPartsValid ==
    \A q \in PartPositions : mapIn.prog[q[1]].parts[q[2]].kind # "text"

\* every well:well part is written from its top-left and bottom-right
\* corners, in either order
AllPartsMainDiagonal ==
    \A q \in PartPositions :
        LET e == mapIn.prog[q[1]].parts[q[2]]
        IN  e.kind = "well:well" => (e.a[1] - e.b[1]) * (e.a[2] - e.b[2]) >= 0

\* the well at coordinate c is named by two parts of the platemap
Overlapped(c) ==
    \E q1 \in PartPositions, q2 \in PartPositions :
        q1 # q2 /\ PartNames(q1, c) /\ PartNames(q2, c)

\* no part after position q gives the well at c a value for variable key
LastFor(q, c, key) ==
    \A q2 \in PartPositions :
        (Earlier(q, q2) /\ PartNames(q2, c)) =>
            \A n2 \in 1..Len(mapIn.prog[q2[1]].values) :
                mapIn.prog[q2[1]].values[n2][1] # key

\* in the returned frame every variable of a well that two parts name holds
\* the value of the last part, in declaration order, that assigns it
LaterWins ==
    mapPc = "done" =>
        \A q \in PartPositions :
            \A c \in PartCoords(mapIn.prog[q[1]].parts[q[2]]) :
            \A n \in 1..Len(mapIn.prog[q[1]].values) :
                (Overlapped(c) /\ LastFor(q, c, mapIn.prog[q[1]].values[n][1]))
                    => CellIs(mapData, tuple2well(c[1], c[2]),
                              mapIn.prog[q[1]].values[n][1], PartValue(q, c, n))

\* C11 as stated: when two rules, or two parts of one key, assign the same
\* variable to the same well, the returned frame holds the value of the
\* later one in declaration order, a variable that only the earlier rule
\* names keeps the earlier value, and no error is raised.
C11_LaterWins ==
    AllPartsValid => (mapPc # "raise" /\ LaterWins)

\* every value of every rule is a scalar, or an array that is spooled over
\* every part of the key of its rule
AllValuesSpooled ==
    \A q \in PartPositions :
        \A c \in PartCoords(mapIn.prog[q[1]].parts[q[2]]) :
        \A n \in 1..Len(mapIn.prog[q[1]].values) :
            PartValue(q, c, n).tag = "scalar"

\* C11, the case the code handles: the same when every well:well part is
\* written from its top-left and bottom-right corners and every array is
\* spooled over its parts.
C11_LaterWinsMainDiagonal ==
    (AllPartsValid /\ AllPartsMainDiagonal /\ AllValuesSpooled)
        => (mapPc # "raise" /\ LaterWins)

\* two rules overlap at A1: the later one has overwritten conc there and
\* left the earlier strain
C11_Overlap ==
    /\ mapPc = "done" /\ Len(mapIn.prog) = 2
    /\ mapIn.prog[1].key = << "A", "1", ":", "B", "1" >>
    /\ mapIn.prog[1].values = MapValues[3]
    /\ mapIn.prog[2].key = << "A", "1" >>
    /\ mapIn.prog[2].values = MapValues[4]
    /\ CellIs(mapData, << "A", "1" >>, "conc", Scalar("5"))
    /\ CellIs(mapData, << "A", "1" >>, "strain", Scalar("'PAO1'"))
    /\ CellIs(mapData, << "B", "1" >>, "conc", Scalar("10"))

\* the variables that a rule names
RuleKeys(rule) == { rule.values[n][1] : n \in 1..Len(rule.values) }

\* the part at position q names the well `label` and its rule names `key`
PartCovers(q, label, key) ==
    /\ key \in RuleKeys(mapIn.prog[q[1]])
    /\ \E c \in PartCoords(mapIn.prog[q[1]].parts[q[2]]) : label = tuple2well(c[1], c[2])

\* the rule with number r has assigned to at least one well: one of its
\* parts resolved to a well or to a range that is not empty
RuleAssigned(r) ==
    \E p \in 1..Len(mapIn.prog[r].parts) :
        LET rng == mapIn.prog[r].parts[p].rng
            tup == range2tuple(rng, mapIn.wells)
        IN  \/ /\ tup.tag = "pair"
               /\ tup.v[1][1] <= tup.v[2][1]
               /\ tup.v[1][2] <= tup.v[2][2]
            \/ /\ tup.tag = "None"
               /\ cell2tuple(rng).tag = "tuple"

\* every cell that holds a value is covered by a part that the loop has
\* handled
OnlyCoveredCells ==
    mapPc \in { "loop", "done" } =>
        \A ck \in DOMAIN mapData.cells :
            \E q \in PartPositions :
                Earlier(q, << mapRule, mapPart >>) /\ PartCovers(q, ck[1], ck[2])

\* the columns of the returned frame are the variables of the rules that
\* assigned to at least one well
ColumnsOfAssigningRules ==
    mapPc = "done" =>
        SeqRange(mapData.columns) =
            UNION { RuleKeys(mapIn.prog[r]) : r \in { x \in 1..Len(mapIn.prog) : RuleAssigned(x) } }

\* a step of the loop leaves every cell outside the wells and the variables
\* of the part it handles as it was
OnlyOwnCells ==
    (mapPc = "loop" /\ mapPc' = "loop") =>
        \A label \in SeqRange(mapData'.index), key \in SeqRange(mapData'.columns) :
            \/ PartCovers(<< mapRule, mapPart >>, label, key)
            \/ /\ CellMissing(mapData, label, key)
               /\ CellMissing(mapData', label, key)
            \/ /\ ~CellMissing(mapData, label, key)
               /\ CellIs(mapData', label, key, mapData.cells[<< label, key >>])

\* C12: a cell that no rule covers (by its wells and its variables) is NaN,
\* the columns of the returned frame are exactly the variables of the rules
\* that assigned to at least one well, and handling a part of a rule changes
\* no cell outside its wells and its variables.
C12_OnlyCoveredCells ==
    /\ [](OnlyCoveredCells /\ ColumnsOfAssigningRules)
    /\ [][OnlyOwnCells]_vars

\* two rules were applied; wells that neither names are NaN in both columns,
\* and a well of the first rule only is NaN in the column of the second
C12_Witness ==
    /\ mapPc = "done" /\ mapIn.wells = 96 /\ Len(mapIn.prog) = 2
    /\ mapIn.prog[1].key = << "B", "1", ":", "C", "2" >>
    /\ mapIn.prog[1].values = MapValues[4]
    /\ mapIn.prog[2].key = << "A", "1", ":", "B", "1" >>
    /\ mapIn.prog[2].values = MapValues[3]
    /\ SeqRange(mapData.columns) = { "conc", "strain" }
    /\ CellIs(mapData, << "C", "2" >>, "conc", Scalar("5"))
    /\ CellMissing(mapData, << "C", "2" >>, "strain")
    /\ CellIs(mapData, << "A", "1" >>, "strain", Scalar("'PAO1'"))
    /\ CellMissing(mapData, << "A", "4" >>, "conc")
    /\ CellMissing(mapData, << "H", "12" >>, "strain")

\* C13 as stated: the frame has exactly one row per well of the plate, in
\* row-major order, and handling a part of a key never adds, removes or
\* reorders rows, whatever the part is.
C13_OneRowPerWell ==
    mapPc \in { "loop", "done" } => mapData.index = EmptyFrame(mapIn.wells).index

\* C13, the case the code handles: the same when every well that the keys
\* name is a well of the plate.
C13_OneRowPerWellOnPlate ==
    (\A q \in PartPositions : \A c \in PartCoords(mapIn.prog[q[1]].parts[q[2]]) :
        c[1] < plates[mapIn.wells][1] /\ c[2] < plates[mapIn.wells][2])
        => C13_OneRowPerWell

(***************************************************************************)
(* Properties of the plate rescaler.                                       *)
(***************************************************************************)
\* the rows and the columns of the to-plate are whole multiples of those
\* of the from-plate
WholeMultiples(from_wells, to_wells) ==
    /\ plates[to_wells][1] % plates[from_wells][1] = 0
    /\ plates[to_wells][2] % plates[from_wells][2] = 0

\* the names of the wells that the from-well (i, j) expands to
Expansion(from_wells, to_wells, i, j) ==
    LET rr == plates[to_wells][1] \div plates[from_wells][1]
        rc == plates[to_wells][2] \div plates[from_wells][2]
    IN  { tuple2well(x, y) : x \in (rr * i)..((rr * i) + rr - 1),
                             y \in (rc * j)..((rc * j) + rc - 1) }

\* C14: when the to-plate's rows and columns are whole multiples rr and rc
\* of the from-plate's, _map_plate maps each from-well (i, j) to the rr*rc
\* wells of rows rr*i..rr*i+rr-1 and columns rc*j..rc*j+rc-1, and the lists
\* partition the wells of the to-plate: each occurs in one list, once (no
\* list repeats a well, the lists together hold as many items as the
\* to-plate has wells, and every well of the to-plate is in one of them).
C14_ExpansionsPartition ==
    (/\ convOut # None /\ scalePc = "call"
     /\ WholeMultiples(scaleIn.from_wells, scaleIn.to_wells)) =>
        LET from == plates[scaleIn.from_wells]
            to == plates[scaleIn.to_wells]
            mapping == convOut.v
        IN  /\ DOMAIN mapping = SeqRange(PlateWells(scaleIn.from_wells))
            /\ \A i \in 0..(from[1] - 1), j \in 0..(from[2] - 1) :
                /\ SeqRange(mapping[tuple2well(i, j)])
                    = Expansion(scaleIn.from_wells, scaleIn.to_wells, i, j)
                /\ Len(mapping[tuple2well(i, j)])
                    = (to[1] \div from[1]) * (to[2] \div from[2])
            /\ UNION { SeqRange(mapping[cell]) : cell \in DOMAIN mapping }
                = SeqRange(PlateWells(scaleIn.to_wells))
            /\ \A cell \in DOMAIN mapping :
                Cardinality(SeqRange(mapping[cell])) = Len(mapping[cell])
            /\ Cardinality(DOMAIN mapping) * (to[1] \div from[1]) * (to[2] \div from[2])
                = to[1] * to[2]

\* _map_plate(24, 96) was called: A1 expands to A1, A2, B1, B2 and D6 to
\* G11, G12, H11, H12
C14_Witness ==
    /\ convOut # None /\ scaleIn.from_wells = 24 /\ scaleIn.to_wells = 96
    /\ convOut.v[<< "A", "1" >>]
        = << << "A", "1" >>, << "A", "2" >>, << "B", "1" >>, << "B", "2" >> >>
    /\ convOut.v[<< "D", "6" >>]
        = << << "G", "1", "1" >>, << "G", "1", "2" >>,
             << "H", "1", "1" >>, << "H", "1", "2" >> >>

\* C15 as stated: _map_plate fails when the rows or the columns of the
\* to-plate are not a whole multiple of those of the from-plate; it returns
\* no mapping for such a pair.
C15_RejectsNonMultiples ==
    (convOut # None /\ ~WholeMultiples(scaleIn.from_wells, scaleIn.to_wells))
        => convOut.tag = "raise"

\* the frame returned holds, for every row of spec and every well of its
\* expansion, a row with the same v and the coordinates of the destination
\* well, and no other row
RowsExpanded ==
    LET from == scaleIn.from_wells
        to == scaleIn.to_wells
        index == scaleIn.spec.index
    IN  /\ \A k \in 1..Len(index) :
            LET t == cell2tuple(index[k]).v
            IN  \A x \in 0..(plates[to][1] - 1), y \in 0..(plates[to][2] - 1) :
                    tuple2well(x, y) \in Expansion(from, to, t[1], t[2]) =>
                        /\ tuple2well(x, y) \in DOMAIN scaleNew.rows
                        /\ scaleNew.rows[tuple2well(x, y)]
                            = [v |-> scaleIn.spec.rows[index[k]].v,
                               row |-> x, column |-> y]
        /\ SeqRange(scaleNew.index)
            = UNION { Expansion(from, to, cell2tuple(index[k]).v[1],
                                cell2tuple(index[k]).v[2]) : k \in 1..Len(index) }
        /\ Cardinality(SeqRange(scaleNew.index)) = Len(scaleNew.index)
        /\ (Len(index) = plates[from][1] * plates[from][2]
                => Len(scaleNew.index) = plates[to][1] * plates[to][2])

\* C16 as stated: scale_plate with include_row_column=True returns, for
\* every row of spec at from-well (i, j), one row for each well of that
\* well's expansion, with the same values and with row and column the
\* destination well's coordinates; a frame of every from-well gives one row
\* per well of the to-plate.
C16_RowsExpanded ==
    (/\ scalePc # "" /\ scaleIn.include_row_column
     /\ WholeMultiples(scaleIn.from_wells, scaleIn.to_wells))
        => /\ scalePc # "raise"
           /\ scalePc = "done" => RowsExpanded

\* C16, the case the code handles: the same for the pairs 24 to 96, 384 and
\* 1536 and 96 to 384 and 1536, with X at A1 of a 96-well plate as example.
C16_RowsExpandedStoredPairs ==
    /\ << scaleIn.from_wells, scaleIn.to_wells >> \in StoredPairs \ { << 384, 1536 >> }
        => C16_RowsExpanded
    /\ (/\ scalePc = "done" /\ scaleIn.include_row_column
        /\ scaleIn.from_wells = 96 /\ scaleIn.to_wells = 384
        /\ scaleIn.spec.index = << << "A", "1" >> >>)
        => /\ scaleNew.index = << << "A", "1" >>, << "A", "2" >>,
                                  << "B", "1" >>, << "B", "2" >> >>
           /\ scaleNew.rows[<< "A", "1" >>] = [v |-> << "A", "1" >>, row |-> 0, column |-> 0]
           /\ scaleNew.rows[<< "A", "2" >>] = [v |-> << "A", "1" >>, row |-> 0, column |-> 1]
           /\ scaleNew.rows[<< "B", "1" >>] = [v |-> << "A", "1" >>, row |-> 1, column |-> 0]
           /\ scaleNew.rows[<< "B", "2" >>] = [v |-> << "A", "1" >>, row |-> 1, column |-> 1]

\* C17 as stated, on the pairs that scale_plate has the map of: with
\* include_row_column=False the call returns, and the frame returned has
\* neither a column row nor a column column, whether spec has both, one of
\* them or neither.
C17_NoRowColumn ==
    (/\ scalePc # "" /\ ~scaleIn.include_row_column
     /\ << scaleIn.from_wells, scaleIn.to_wells >> \in StoredPairs \ { << 384, 1536 >> })
        => /\ scalePc # "raise"
           /\ scalePc = "done" =>
                \A cell \in DOMAIN scaleNew.rows :
                    "row" \notin DOMAIN scaleNew.rows[cell]
                        /\ "column" \notin DOMAIN scaleNew.rows[cell]

\* C17, the case the code handles: the same when spec has both columns or
\* neither.
C17_NoRowColumnBothOrNeither ==
    ({ "row", "column" } \cap scaleIn.spec.columns \in { { }, { "row", "column" } })
        => C17_NoRowColumn

(***************************************************************************)
(* Properties of the plate combiner.                                       *)
(***************************************************************************)
\* the number of rows and of columns of the grid of frames
GridRows == Len(combIn.layout)

GridCols == IF combIn.layout = << >> THEN 0 ELSE Len(combIn.layout[1])

\* the layout does not fill the destination plate
GridMismatch ==
    \/ plates[combIn.wells_from][1] * GridRows # plates[combIn.wells_to][1]
    \/ plates[combIn.wells_from][2] * GridCols # plates[combIn.wells_to][2]

\* C18: combine_plate_dataframes fails, before it produces any output row,
\* when from_rows * (grid rows) differs from to_rows or from_cols * (grid
\* columns) differs from to_cols, and does not fail when both are equal.
C18_FailsFast ==
    combPc \notin { "", "call" } =>
        /\ GridMismatch => (combPc = "raise" /\ combNew = None)
        /\ ~GridMismatch => combPc # "raise"

\* a 1 x 2 layout of 96-well frames for a 96-well destination (the rows
\* fit, the columns do not) was rejected with no output row
C18_Rejected ==
    /\ combPc = "raise" /\ combNew = None
    /\ combIn.wells_from = 96 /\ combIn.wells_to = 96
    /\ GridRows = 1 /\ GridCols = 2

\* the destination coordinate that the claim gives the well at (r, c) of the
\* frame at grid position (i, j)
Destination(r, c, i, j) ==
    LET from == plates[combIn.wells_from]
        to == plates[combIn.wells_to]
    IN  << IF combIn.interleave_rows THEN ((to[1] \div from[1]) * r) + i
           ELSE r + (from[1] * i),
           IF combIn.interleave_columns THEN ((to[2] \div from[2]) * c) + j
           ELSE c + (from[2] * j) >>

\* every frame of the layout holds each well of the from-plate once
FullFrames ==
    \A i \in 1..GridRows, j \in 1..GridCols :
        combIn.layout[i][j].index = PlateWells(combIn.wells_from)

\* C19: the well (r, c) of the frame at grid position (i, j) lands at row
\* r + from_rows*i, or ratio_rows*r + i with interleave_rows, and likewise
\* for the column; when every frame holds each from-well once the
\* destination wells are each filled by exactly one source well.
C19_Placement ==
    combPc = "done" =>
        /\ \A i \in 0..(GridRows - 1), j \in 0..(GridCols - 1) :
           \A cell \in SeqRange(combIn.layout[i + 1][j + 1].index) :
            LET t == cell2tuple(cell).v
                d == Destination(t[1], t[2], i, j)
            IN  /\ tuple2well(d[1], d[2]) \in DOMAIN combNew.rows
                /\ combNew.rows[tuple2well(d[1], d[2])].plate = << i, j >>
                /\ combNew.rows[tuple2well(d[1], d[2])].v = cell
        /\ Cardinality(SeqRange(combNew.index)) = Len(combNew.index)
        /\ FullFrames =>
            /\ SeqRange(combNew.index) = SeqRange(PlateWells(combIn.wells_to))
            /\ Len(combNew.index) = GridRows * GridCols * Len(PlateWells(combIn.wells_from))

\* four full 24-well frames were combined into a 96-well frame with the rows
\* interleaved and the columns in blocks: B1 of the frame at (1, 1) is row D
\* (3 = 2*1 + 1), column 7 (6 = 0 + 6*1)
C19_Witness ==
    /\ combPc = "done" /\ combIn.wells_from = 24 /\ combIn.wells_to = 96
    /\ combIn.interleave_rows /\ ~combIn.interleave_columns
    /\ FullFrames
    /\ combNew.rows[<< "D", "7" >>].plate = << 1, 1 >>
    /\ combNew.rows[<< "D", "7" >>].v = << "B", "1" >>
    /\ Len(combNew.index) = 96

(***************************************************************************)
(* Properties of the grouped normalizer.                                   *)
(***************************************************************************)
\* the frame returned holds each row of df once, with every value as it
\* was (every row of df differs from the others in its OD600)
SameRows ==
    /\ Len(Concat(normNew)) = Len(normIn.df)
    /\ SeqRange(Concat(normNew)) = SeqRange(normIn.df)

\* the call groups by at least one column and calls the transform in a way
\* that its parameters allow
NormCallable ==
    /\ RemoveFirst(normIn.columns, normIn.on) # << >>
    /\ ~TransformFails(normIn.how)

\* C20 as stated: calc_norm with the identity transform returns a frame of
\* the same shape as df, for every df, rows that hold the missing value in
\* a group-by column included: each row of df is in it once, with the
\* values it had; only the order of the rows may differ.
C20_SameShape ==
    (normPc \in { "done", "raise" } /\ NormCallable) =>
        (normPc = "done" /\ SameRows)

\* C20, the case the code handles: the same for a df that has a row and
\* holds no missing value in the group-by columns.
C20_SameShapeNoMissing ==
    (/\ normIn.df # << >>
     /\ \A k \in 1..Len(normIn.df) :
            \A c \in SeqRange(RemoveFirst(normIn.columns, normIn.on)) :
                normIn.df[k][c] # "nan")
        => C20_SameShape

\* the groups of the call: the names that groupby gives for the columns
\* other than `on`
NormGroupsOf == GroupNames(normIn.df, RemoveFirst(normIn.columns, normIn.on))

\* what a transform of n parameters is to be given
ArgsFor(n) == SubSeq(<< "column", "name", "group" >>, 1, IF n < 3 THEN n ELSE 3)

\* `how` was called once for every group, in the order of the groups, with
\* the arguments that its number of parameters selects
CalledOncePerGroup ==
    /\ Len(normCalls) = Len(NormGroupsOf)
    /\ \A k \in 1..Len(normCalls) :
        normCalls[k] = [args |-> ArgsFor(Len(normIn.how.params)), name |-> NormGroupsOf[k]]

\* C21 as stated: whatever its parameters are named, a transform of one
\* parameter is called with the series, one of two with the series and the
\* group key, one of three or more with the series, the key and the group
\* table, once for every group that is not empty; the call returns.
C21_DispatchByCount ==
    (/\ normPc \in { "done", "raise" }
     /\ RemoveFirst(normIn.columns, normIn.on) # << >>
     /\ NormGroupsOf # << >>)
        => (normPc = "done" /\ CalledOncePerGroup)

\* C21, the case the code handles: the same for a transform of one or two
\* parameters, and for one of three parameters of which the second and the
\* third are named name and group.
C21_DispatchKeywordNames ==
    ~TransformFails(normIn.how) => C21_DispatchByCount

\* the documented transform of parameters x, n, g was given a frame with a
\* group: the call raised and the transform was never called
C21_PositionalNamesRaise ==
    /\ normPc = "raise"
    /\ normIn.how.params = << "x", "n", "g" >>
    /\ NormGroupsOf # << >>
    /\ normCalls = << >>

\* C23 as stated: when the call has returned, the list that the caller
\* passed as the group-by columns holds what it held before the call, also
\* when it contains the index column.
C23_ArgumentsKept == normPc = "done" => normCols = normIn.columns

\* C23, the case the code handles: the same when the list does not contain
\* the index column.
C23_ArgumentsKeptOnOutside ==
    normIn.on \notin SeqRange(normIn.columns) => C23_ArgumentsKept

\* the index column was in the list: the call returned and the caller's
\* list has lost it
C23_ListShortened ==
    /\ normPc = "done"
    /\ normIn.columns = << "time", "conc" >>
    /\ normCols = << "conc" >>

\* the index of the frame is named well or wells, in any case
IndexNamedWell(df) ==
    /\ df.name # None
    /\ LowerStr(df.name.v) \in { << "w", "e", "l", "l" >>, << "w", "e", "l", "l", "s" >> }

\* every label of the index of the frame is a well name
IndexOfWells(df) == \A k \in 1..Len(df.index) : is_well(df.index[k])

\* the columns of the frame that are named well or wells, in any case
WellColumns(df) ==
    { c \in SeqRange(df.columns) :
        LowerStr(c) \in { << "w", "e", "l", "l" >>, << "w", "e", "l", "l", "s" >> } }

\* out is df with the column c moved to the index: the index is named well
\* and holds the values of c, the other columns are there in their order,
\* with their values
ColumnMoved(df, c, out) ==
    /\ out.name = PyStr(<< "w", "e", "l", "l" >>)
    /\ out.index = df.data[c]
    /\ Len(out.columns) = Len(df.columns) - 1
    /\ \A i, j \in 1..Len(out.columns) :
        i < j => IndexOf(df.columns, out.columns[i]) < IndexOf(df.columns, out.columns[j])
    /\ \A k \in 1..Len(out.columns) :
        /\ out.columns[k] \in SeqRange(df.columns) \ { c }
        /\ out.data[out.columns[k]] = df.data[out.columns[k]]

\* C22: fortify_plate looks for the wells in the name of the index, then in
\* the labels of the index, then in the names of the columns; when one of
\* the three finds them the frame returned has the index named well (moved
\* from the column in the third case) and the rows and the other columns of
\* df, and when none does the call raises and returns nothing.
C22_FindsWells ==
    fortPc \in { "done", "raise" } =>
        LET df == fortIn.df
        IN  IF IndexNamedWell(df) \/ IndexOfWells(df)
            THEN /\ fortPc = "done"
                 /\ fortOut = [df EXCEPT !.name = PyStr(<< "w", "e", "l", "l" >>)]
            ELSE IF WellColumns(df) # { }
            THEN /\ fortPc = "done"
                 /\ \E c \in WellColumns(df) : ColumnMoved(df, c, fortOut)
            ELSE fortPc = "raise" /\ fortOut = None

\* the index is named foo and holds a label that is no well name, the frame
\* has the columns OD600 and wells: the column wells became the index
C22_Witness ==
    /\ fortPc = "done"
    /\ fortIn.df.name = PyStr(<< "f", "o", "o" >>)
    /\ fortIn.df.index = << << "A", "1" >>, << "x" >> >>
    /\ fortIn.df.columns = << << "O", "D", "6", "0", "0" >>, << "w", "e", "l", "l", "s" >> >>
    /\ fortOut.name = PyStr(<< "w", "e", "l", "l" >>)
    /\ fortOut.index = << << "a", "2" >>, << "b", "2" >> >>
    /\ fortOut.columns = << << "O", "D", "6", "0", "0" >> >>

\* the plate sizes that accommodate the wells given: more rows than the
\* largest row and more columns than the largest column
Accommodating ==
    { n \in DOMAIN plates :
        \A k \in 1..Len(sizeIn.cells) :
            /\ well2tuple(sizeIn.cells[k]).v[1] < plates[n][1]
            /\ well2tuple(sizeIn.cells[k]).v[2] < plates[n][2] }

\* the list s holds the numbers of S in ascending order
AscendingListOf(s, S) ==
    /\ SeqRange(s) = S
    /\ Len(s) = Cardinality(S)
    /\ \A i, j \in 1..Len(s) : i < j => s[i] < s[j]

\* C24: for wells that are given (prefer96 not set), infer_plate_size with
\* all=True returns the accommodating sizes in ascending order, and they
\* are the largest of the supported sizes; with all=False it returns the
\* preferred size when that accommodates the wells and else the smallest
\* size that does.
C24_SmallestOrPreferred ==
    (sizePc \in { "done", "raise" } /\ sizeIn.cells # << >> /\ ~sizeIn.prefer96) =>
        IF sizeIn.all
        THEN /\ sizePc = "done"
             /\ sizeOut.tag = "list"
             /\ AscendingListOf(sizeOut.v, Accommodating)
             /\ \A n \in Accommodating, b \in DOMAIN plates : b > n => b \in Accommodating
        ELSE IF sizeIn.prefer # None /\ sizeIn.prefer.v \in Accommodating
        THEN sizePc = "done" /\ sizeOut = sizeIn.prefer
        ELSE Accommodating # { } =>
                /\ sizePc = "done"
                /\ sizeOut.tag = "int"
                /\ sizeOut.v \in Accommodating
                /\ \A n \in Accommodating : sizeOut.v <= n

\* H13 with prefer=96, which does not accommodate it, gave 384
C24_Witness ==
    /\ sizePc = "done"
    /\ sizeIn.cells = << << "A", "1" >>, << "H", "1", "3" >> >>
    /\ ~sizeIn.all /\ ~sizeIn.prefer96
    /\ sizeIn.prefer = PyInt(96)
    /\ sizeOut = PyInt(384)


(***************************************************************************)
(* Properties of the walk in column order.                                 *)
(***************************************************************************)

\* the walk started at start on a plate of `wells` wells, in column-major
\* order: item k (from 0) of the walk
ColumnWalkAt(start, wells, k) ==
    LET rows == plates[wells][1]
        cols == plates[wells][2]
        q == (start[2] * rows + start[1] + k) % (rows * cols)
    IN  << q % rows, q \div rows >>

WalkIsColumnMajor ==
    \A k \in 0..(Len(walkOut) - 1) :
        LET at == ColumnWalkAt(cell2tuple(walkIn.start).v, walkIn.wells, k)
        IN  walkOut[k + 1].well = tuple2well(at[1], at[2])

\* C25: with by='column', the value the docstring of iterwells documents and
\* itertuples accepts, iterwells yields the wells of a column before it goes
\* to the next column, and wraps from the last row of the last column to A1.
C25_ColumnOrder ==
    (walkPc \in { "loop", "yield", "done" } /\ walkIn.by = "column") => WalkIsColumnMajor

\* C25, as the code has it: the column order is selected by by='columns'.
C25_ColumnOrderPlural ==
    (walkPc \in { "loop", "yield", "done" } /\ walkIn.by = "columns") => WalkIsColumnMajor

\* C25: a walk with by='column' from A1 on the 96-well plate has yielded A1
\* and then A2, the next well of the row.
C25_RowOrderWalked ==
    /\ walkPc = "done"
    /\ walkIn.by = "column" /\ walkIn.wells = 96 /\ walkIn.start = << "A", "1" >>
    /\ Len(walkOut) >= 2
    /\ walkOut[1].well = << "A", "1" >>
    /\ walkOut[2].well = << "A", "2" >>


(***************************************************************************)
(* Properties of the arrays that are not spooled element by element.       *)
(***************************************************************************)

\* the elements of an array that is 1-D or is squeezed to 1-D (one of one
\* element included), in order; empty for any other value
VectorOf(value) ==
    IF value.tag = "list1" THEN value.v
    ELSE IF value.tag = "list2" /\ Len(value.v) = 1 THEN value.v[1]
    ELSE IF value.tag = "list2" /\ Len(value.v[1]) = 1
    THEN [k \in 1..Len(value.v) |-> value.v[k][1]]
    ELSE << >>

\* the array has as many elements as the range, which is a single column or
\* a single row, has wells
FitsAsVector(value, dim) ==
    /\ VectorOf(value) # << >>
    /\ \/ dim = << Len(VectorOf(value)), 1 >>
       \/ dim = << 1, Len(VectorOf(value)) >>

\* the dimensions of the rectangle of a part
PartDim(e) ==
    LET R == PartRectangle(e)
    IN  << R[2][1] - R[1][1] + 1, R[2][2] - R[1][2] + 1 >>

\* the call has raised in the assignments of a part that is a range or a
\* well name
AssignmentRaised ==
    /\ mapPc = "raise"
    /\ mapIn.prog[mapRule].parts[mapPart].kind # "text"
    /\ \/ range2tuple(MapRng, mapIn.wells).tag = "pair"
       \/ /\ range2tuple(MapRng, mapIn.wells).tag = "None"
          /\ cell2tuple(MapRng).tag = "tuple"

\* the part handled last is a range, and every array of at least `least`
\* elements that fits it as a vector has left element k in the well at
\* offset k; and no assignment of such a rule to such a range has raised
VectorsByOffset(least) ==
    /\ LastPartIsRange =>
        LET rule == mapIn.prog[mapLast[1]]
            e == rule.parts[mapLast[2]]
            R == PartRectangle(e)
        IN  \A n \in 1..Len(rule.values) :
                (/\ FitsAsVector(rule.values[n][2], PartDim(e))
                 /\ Len(VectorOf(rule.values[n][2])) >= least) =>
                    \A c \in PartCoords(e) :
                        CellIs(mapData, tuple2well(c[1], c[2]), rule.values[n][1],
                               Scalar(VectorOf(rule.values[n][2])
                                        [(c[1] - R[1][1]) + (c[2] - R[1][2]) + 1]))
    /\ AssignmentRaised =>
        LET rule == mapIn.prog[mapRule]
            e == rule.parts[mapPart]
        IN  \E n \in 1..Len(rule.values) :
                /\ rule.values[n][2].tag # "scalar"
                /\ ~(/\ e.kind # "well"
                     /\ FitsAsVector(rule.values[n][2], PartDim(e))
                     /\ Len(VectorOf(rule.values[n][2])) >= least)

\* C26: an array that is 1-D, or is squeezed to 1-D, of n elements is
\* assigned by row offset to a range of one column and n rows and by column
\* offset to a range of one row and n columns, for every n >= 1: the well
\* at offset k holds element k.
C26_VectorByOffset == VectorsByOffset(1)

\* C26, the case the code handles: the same for n >= 2.
C26_VectorByOffsetTwoOrMore == VectorsByOffset(2)

\* C26: the list [7] has gone to the range A1:A1 and the call has raised
C26_OneElementRaised ==
    /\ AssignmentRaised
    /\ mapIn.prog[mapRule].key = << "A", "1", ":", "A", "1" >>
    /\ mapIn.prog[mapRule].values = MapValues[7]

\* C26: the list [0, 10, 100] has been assigned by row offset to A1:C1
C26_ByRowOffset ==
    /\ mapPc = "done" /\ Len(mapIn.prog) = 1
    /\ mapIn.prog[1].key = << "A", "1", ":", "C", "1" >>
    /\ mapIn.prog[1].values = MapValues[6]
    /\ CellIs(mapData, << "A", "1" >>, "conc", Scalar("0"))
    /\ CellIs(mapData, << "B", "1" >>, "conc", Scalar("10"))
    /\ CellIs(mapData, << "C", "1" >>, "conc", Scalar("100"))

\* the part handled last has left every value of its rule that is not
\* spooled over it, whole, in every well it names
WholeValuesAssigned ==
    (mapPc \in { "loop", "done" } /\ mapLast # << 0, 0 >>) =>
        LET rule == mapIn.prog[mapLast[1]]
            e == rule.parts[mapLast[2]]
        IN  e.kind = "text"
            \/ (e.kind = "well:well" /\ (e.a[1] - e.b[1]) * (e.a[2] - e.b[2]) < 0)
            \/ \A c \in PartCoords(e) : \A n \in 1..Len(rule.values) :
                CellIs(mapData, tuple2well(c[1], c[2]), rule.values[n][1],
                       PartValue(mapLast, c, n))

\* C27: an array whose shape fits the range in none of the three forms is
\* not an error, the whole array is assigned to every well of the range;
\* and a well name is assigned the value as it is, with no element taken
\* from an array.
C27_WholeValueAssigned == ~AssignmentRaised /\ WholeValuesAssigned

\* C27, as the code with pandas has it: a part is handled to its end only
\* when every value it assigns to a well is a scalar or an array of one
\* element, and then the wells hold the scalars.
C27_OnlyScalarsAssigned ==
    (mapPc \in { "loop", "done" } /\ mapLast # << 0, 0 >>) =>
        LET rule == mapIn.prog[mapLast[1]]
            e == rule.parts[mapLast[2]]
        IN  e.kind = "text"
            \/ (e.kind = "well:well" /\ (e.a[1] - e.b[1]) * (e.a[2] - e.b[2]) < 0)
            \/ \A c \in PartCoords(e) : \A n \in 1..Len(rule.values) :
                LET value == PartValue(mapLast, c, n)
                IN  IF value.tag = "scalar"
                    THEN CellIs(mapData, tuple2well(c[1], c[2]), rule.values[n][1], value)
                    ELSE /\ Size(value) = 1
                         /\ CellIs(mapData, tuple2well(c[1], c[2]), rule.values[n][1],
                                   Item(value))

\* C27: the array [[0, 1], [2, 3]] has gone to the range A1:A3 and the call
\* has raised
C27_MismatchRaised ==
    /\ AssignmentRaised
    /\ mapIn.prog[mapRule].key = << "A", "1", ":", "A", "3" >>
    /\ mapIn.prog[mapRule].values = MapValues[1]

\* C27: the list [0, 10, 100] has gone to the well A1 and the call has
\* raised
C27_SingleWellRaised ==
    /\ AssignmentRaised
    /\ mapIn.prog[mapRule].key = << "A", "1" >>
    /\ mapIn.prog[mapRule].values = MapValues[6]


(***************************************************************************)
(* Properties of the conversion maps that scale_plate uses.                *)
(***************************************************************************)

\* scale_plate has looked its conversion map up
MapLookedUp == scalePc \in { "loop", "done", "raise" }

\* the conversion map that scale_plate uses for the pair is the one that
\* _map_plate gives for it: a key for each well of the from-plate and no
\* other, each with the ratio of rows times the ratio of columns wells
MapAsBuilt(from_wells, to_wells) ==
    /\ << from_wells, to_wells >> \in StoredPairs
    /\ _plate_conversion_maps(from_wells, to_wells) = _map_plate(from_wells, to_wells)
    /\ DOMAIN _plate_conversion_maps(from_wells, to_wells)
        = SeqRange(PlateWells(from_wells))
    /\ \A cell \in DOMAIN _plate_conversion_maps(from_wells, to_wells) :
        Len(_plate_conversion_maps(from_wells, to_wells)[cell])
            = (plates[to_wells][1] \div plates[from_wells][1])
                * (plates[to_wells][2] \div plates[from_wells][2])

\* C28: for every pair of plates of which the rows and the columns are
\* whole multiples, the conversion map that scale_plate uses is the one
\* that _map_plate gives for the pair, for the pairs that
\* _plate_conversion_maps stores and for the pairs it does not store.
C28_MapAsBuilt ==
    (MapLookedUp /\ WholeMultiples(scaleIn.from_wells, scaleIn.to_wells))
        => MapAsBuilt(scaleIn.from_wells, scaleIn.to_wells)

\* C28, the case the code handles: the same for the pairs 24 to 96, 384 and
\* 1536 and 96 to 384 and 1536.
C28_MapAsBuiltStoredPairs ==
    (/\ MapLookedUp
     /\ << scaleIn.from_wells, scaleIn.to_wells >> \in StoredPairs \ { << 384, 1536 >> })
        => /\ WholeMultiples(scaleIn.from_wells, scaleIn.to_wells)
           /\ MapAsBuilt(scaleIn.from_wells, scaleIn.to_wells)

\* C28: a row at A1 of a 384-well plate has been scaled to 16 wells of the
\* 1536-well plate
C28_MapOf96Used ==
    /\ scalePc = "done"
    /\ scaleIn.from_wells = 384 /\ scaleIn.to_wells = 1536
    /\ scaleIn.spec.index = << << "A", "1" >> >>
    /\ Len(scaleNew.index) = 16

\* C28: scaling from 6 to 24 wells has raised before any row was read
C28_NoMapRaised ==
    /\ scalePc = "raise"
    /\ scaleIn.from_wells = 6 /\ scaleIn.to_wells = 24
    /\ scaleNew = None


(***************************************************************************)
(* Properties of the range parser on every plate shape.                    *)
(***************************************************************************)

\* the call has resolved the range to the two wells it is written from:
\* range2wells to their names, range2tuple to their coordinates
ResolvedToItsWells ==
    /\ rangeOut.tag = "pair"
    /\ rangeCall = "range2wells" =>
        { rangeOut.v[1], rangeOut.v[2] }
            = { tuple2well(rangeIn.a[1], rangeIn.a[2]),
                tuple2well(rangeIn.b[1], rangeIn.b[2]) }
    /\ rangeCall = "range2tuple" =>
        { rangeOut.v[1], rangeOut.v[2] } = { rangeIn.a, rangeIn.b }

\* C29: range2wells and range2tuple resolve well:well for any two wells of
\* the plate, those of rows with a name of two letters included, and return
\* None only for a text that is in none of the three grammars.
C29_WellRangeResolved ==
    /\ (rangeCall # "" /\ rangeIn.kind = "well:well") => ResolvedToItsWells
    /\ (rangeCall # "" /\ rangeOut = None) => rangeIn.kind = "text"

\* C29, the case the code handles: the same for the wells of the first 26
\* rows.
C29_WellRangeResolvedOneLetter ==
    /\ (/\ rangeCall # "" /\ rangeIn.kind = "well:well"
        /\ rangeIn.a[1] < Len(_alpha) /\ rangeIn.b[1] < Len(_alpha))
        => ResolvedToItsWells
    /\ (/\ rangeCall # "" /\ rangeOut = None /\ rangeIn.kind = "well:well")
        => (rangeIn.a[1] >= Len(_alpha) \/ rangeIn.b[1] >= Len(_alpha))
    /\ (rangeCall # "" /\ rangeOut = None) => rangeIn.kind \in { "text", "well:well" }

\* C29: range2tuple has returned None for AA1:AB2 on the 1536-well plate
C29_TwoLetterRowsNone ==
    /\ rangeCall = "range2tuple"
    /\ rangeIn.kind = "well:well" /\ rangeIn.wells = 1536
    /\ rangeIn.rng = << "A", "A", "1", ":", "A", "B", "2" >>
    /\ rangeOut = None


(***************************************************************************)
(* Properties of is_well against well2tuple.                               *)
(***************************************************************************)

\* well2tuple has been called on the string given
DecodedName == codecCalls = << "well2tuple" >> /\ codecIn.tag = "str"

\* well2tuple has returned a coordinate of a well: a row and a column that
\* are not negative
ValidCoordinate ==
    codecOut.tag = "tuple" /\ codecOut.v[1] >= 0 /\ codecOut.v[2] >= 0

\* C30: every string that is_well accepts decodes to a coordinate with
\* row >= 0 and column >= 0, and is_well is true exactly for the strings on
\* which well2tuple succeeds.
C30_AcceptedNamesDecode ==
    DecodedName =>
        /\ is_well(codecIn.v) => ValidCoordinate
        /\ is_well(codecIn.v) <=> codecOut.tag = "tuple"

\* C30, the case the code handles: a name that is_well accepts, written in
\* upper case with a column number from 1, decodes to such a coordinate.
C30_UpperCaseFromOne ==
    (/\ DecodedName /\ is_well(codecIn.v)
     /\ codecIn.v = UpperStr(codecIn.v)
     /\ ParseInt(CellRegexMatch(codecIn.v).g2) >= 1)
        => ValidCoordinate

\* C30: is_well accepts A0 and well2tuple has decoded it to column -1
C30_ColumnMinusOne ==
    /\ DecodedName
    /\ codecIn.v = << "A", "0" >> /\ is_well(codecIn.v)
    /\ codecOut = PyTuple(0, -1)

====
